---- MODULE Spec2Model ----
(***************************************************************************)
(* Onboarding interview of the supplement chatbot (app/services/           *)
(* chat_service.py): the session's onboarding state, the turn handlers     *)
(* handle_message / get_first_question / get_current_question, the step    *)
(* list (_ordered_steps), the per-field validators and the concern         *)
(* taxonomy (_parse_concerns, _normalize_concerns).                        *)
(*                                                                         *)
(* Text.  A Python str is modelled as a sequence of tokens: a token is a   *)
(* maximal run of word characters (letters, digits, underscore), one       *)
(* white-space character " ", or one punctuation character.  On this       *)
(* representation the regular expressions of the parser (\s+, \b, literal  *)
(* alternatives) act token by token.  The words of the vocabulary occur    *)
(* only as whole tokens in the texts drawn below.                          *)
(***************************************************************************)
EXTENDS Integers, Sequences, FiniteSets, TLC

(***************************************************************************)
(* Bounds of the model.                                                    *)
(***************************************************************************)
\* longest concern selection drawn for the pure-function specifications
MaxConcerns == 2

None == "None"

(***************************************************************************)
(* str helpers on token sequences.                                         *)
(***************************************************************************)
SP == " "

\* the tokens of a space-separated phrase
RECURSIVE Phrase(_)
Phrase(words) ==
    IF Len(words) <= 1 THEN words
    ELSE <<Head(words), SP>> \o Phrase(Tail(words))

\* character count of one token
TokLen(t) ==
    CASE t \in {SP, "&", ",", "/", ";", "|", "@", ".", "x", "a", "b"} -> 1
      [] t \in {"me", "no", "Al", "Bo", "27", "co", "hi"} -> 2
      [] t \in {"and", "gut", "yes", "son"} -> 3
      [] t \in {"skin", "hair"} -> 4
      [] t \in {"sleep", "brain", "nails"} -> 5
      [] t \in {"stress", "energy", "weight", "libido", "immune", "system"} -> 6
      [] t \in {"stomach", "fitness", "hormone"} -> 7
      [] t \in {"immunity", "hormones"} -> 8
      [] t \in {"intestines", "resistance", "hair_nails"} -> 10
      [] t = "stomach_intestines" -> 18

RECURSIVE StrLen(_)
StrLen(text) ==
    IF text = <<>> THEN 0 ELSE TokLen(Head(text)) + StrLen(Tail(text))

\* str.lower() of one token
LowerTok(t) ==
    CASE t = "Stomach" -> "stomach"
      [] t = "Intestines" -> "intestines"
      [] t = "Hair" -> "hair"
      [] t = "Nails" -> "nails"
      [] t = "Sleep" -> "sleep"
      [] t = "Gut" -> "gut"
      [] t = "Stress" -> "stress"
      [] t = "Management" -> "management"
      [] t = "Energy" -> "energy"
      [] t = "Support" -> "support"
      [] t = "Digestive" -> "digestive"
      [] t = "Health" -> "health"
      [] t = "Skin" -> "skin"
      [] t = "Immune" -> "immune"
      [] t = "Weight" -> "weight"
      [] t = "Libido" -> "libido"
      [] t = "Brain" -> "brain"
      [] t = "Nail" -> "nail"
      [] t = "Fitness" -> "fitness"
      [] t = "Hormone" -> "hormone"
      [] t = "Balance" -> "balance"
      [] t = "Vegan" -> "vegan"
      [] t = "Yes" -> "yes"
      [] t = "No" -> "no"
      [] OTHER -> t

lower(text) == [i \in 1..Len(text) |-> LowerTok(text[i])]

\* str.replace(old, new): leftmost, non-overlapping
RECURSIVE replace(_, _, _)
replace(text, old, new) ==
    IF Len(text) < Len(old) THEN text
    ELSE IF SubSeq(text, 1, Len(old)) = old
         THEN new \o replace(SubSeq(text, Len(old) + 1, Len(text)), old, new)
         ELSE <<Head(text)>> \o replace(Tail(text), old, new)

\* first index j >= i with text[j] not in S (Len(text)+1 when there is none)
RECURSIVE RunEnd(_, _, _)
RunEnd(text, i, S) ==
    IF i > Len(text) \/ text[i] \notin S THEN i ELSE RunEnd(text, i + 1, S)

\* re.sub(r"\s+/+\s*", ",", text)
RECURSIVE sub_slash(_)
sub_slash(text) ==
    IF text = <<>> THEN <<>>
    ELSE LET a == RunEnd(text, 1, {SP})
             b == RunEnd(text, a, {"/"})
             c == RunEnd(text, b, {SP})
         IN  IF a > 1 /\ b > a
             THEN <<",">> \o sub_slash(SubSeq(text, c, Len(text)))
             ELSE <<Head(text)>> \o sub_slash(Tail(text))

\* re.sub(r"\s+and\s+", ",", text)
RECURSIVE sub_and(_)
sub_and(text) ==
    IF text = <<>> THEN <<>>
    ELSE LET a == RunEnd(text, 1, {SP})
             c == RunEnd(text, a + 1, {SP})
         IN  IF a > 1 /\ a <= Len(text) /\ text[a] = "and" /\ c > a + 1
             THEN <<",">> \o sub_and(SubSeq(text, c, Len(text)))
             ELSE <<Head(text)>> \o sub_and(Tail(text))

\* str.strip()
RECURSIVE strip(_)
strip(text) ==
    IF text = <<>> THEN text
    ELSE IF Head(text) = SP THEN strip(Tail(text))
    ELSE IF text[Len(text)] = SP THEN strip(SubSeq(text, 1, Len(text) - 1))
    ELSE text

\* str.split(sep) for a one-token separator
RECURSIVE split(_, _)
split(text, sep) ==
    LET j == CHOOSE k \in 1..(Len(text) + 1) :
                 /\ k > Len(text) \/ text[k] = sep
                 /\ \A m \in 1..(k - 1) : text[m] # sep
    IN  IF j > Len(text) THEN <<text>>
        ELSE <<SubSeq(text, 1, j - 1)>> \o split(SubSeq(text, j + 1, Len(text)), sep)

\* membership and order-preserving helpers on lists
InSeq(x, s) == \E i \in 1..Len(s) : s[i] = x

AppendNew(s, x) == IF InSeq(x, s) THEN s ELSE Append(s, x)

IndexOf(x, s) == CHOOSE i \in 1..Len(s) : s[i] = x /\ \A j \in 1..(i - 1) : s[j] # x

(***************************************************************************)
(* Concern taxonomy.                                                       *)
(***************************************************************************)
\* CONCERN_SYNONYMS, in source order: <<key, canonical concern>>
CONCERN_SYNONYMS ==
    << <<Phrase(<<"sleep">>), "sleep">>,
       <<Phrase(<<"stress">>), "stress">>,
       <<Phrase(<<"energy">>), "energy">>,
       <<Phrase(<<"stomach">>), "stomach_intestines">>,
       <<Phrase(<<"stomach", "&", "intestines">>), "stomach_intestines">>,
       <<Phrase(<<"stomach", "and", "intestines">>), "stomach_intestines">>,
       <<Phrase(<<"intestines">>), "stomach_intestines">>,
       <<Phrase(<<"gut">>), "stomach_intestines">>,
       <<Phrase(<<"skin">>), "skin">>,
       <<Phrase(<<"resistance">>), "resistance">>,
       <<Phrase(<<"immunity">>), "resistance">>,
       <<Phrase(<<"immune">>), "resistance">>,
       <<Phrase(<<"immune", "system">>), "resistance">>,
       <<Phrase(<<"weight">>), "weight">>,
       <<Phrase(<<"libido">>), "libido">>,
       <<Phrase(<<"brain">>), "brain">>,
       <<Phrase(<<"hair">>), "hair_nails">>,
       <<Phrase(<<"nails">>), "hair_nails">>,
       <<Phrase(<<"hair", "&", "nails">>), "hair_nails">>,
       <<Phrase(<<"hair", "and", "nails">>), "hair_nails">>,
       <<Phrase(<<"hair", "nails">>), "hair_nails">>,
       <<Phrase(<<"fitness">>), "fitness">>,
       <<Phrase(<<"hormones">>), "hormones">>,
       <<Phrase(<<"hormone">>), "hormones">> >>

\* CONCERN_SYNONYMS.get(text): the canonical concern of a key, or None
Get(table, text) ==
    IF \E i \in 1..Len(table) : table[i][1] = text
    THEN table[CHOOSE i \in 1..Len(table) : table[i][1] = text][2]
    ELSE None

SynonymOf(text) == Get(CONCERN_SYNONYMS, text)

\* CONCERN_QUESTIONS: the question ids of each concern, in table order
CONCERN_QUESTIONS ==
    [sleep |-> <<"fall_asleep", "refreshed", "hours">>,
     stress |-> <<"busy_level", "after_day", "signals">>,
     energy |-> <<"day_load", "end_day", "body_signals">>,
     stomach_intestines |-> <<"bowel", "improve", "extra">>,
     skin |-> <<"most_days", "notices", "dry">>,
     resistance |-> <<"low", "intense_training", "medical_care">>,
     weight |-> <<"challenge", "binge", "sleep_hours">>,
     hormones |-> <<"cycle", "physical_changes", "emotions">>,
     libido |-> <<"level", "sleep_quality", "pressure">>,
     brain |-> <<"symptoms", "mood", "improve">>,
     hair_nails |-> <<"hair", "nails", "extras">>,
     fitness |-> <<"frequency", "training", "priority">>]

Concerns == DOMAIN CONCERN_QUESTIONS

\* sorted(CONCERN_SYNONYMS.keys(), key=len, reverse=True): a stable sort, so
\* keys of equal length keep the source order
RECURSIVE SortByLen(_, _)
SortByLen(keys, idx) ==
    IF idx = {} THEN <<>>
    ELSE LET best == CHOOSE i \in idx : \A j \in idx :
                         \/ StrLen(keys[i]) > StrLen(keys[j])
                         \/ StrLen(keys[i]) = StrLen(keys[j]) /\ i <= j
         IN  <<keys[best]>> \o SortByLen(keys, idx \ {best})

\* CONCERN_SYNONYMS.keys(), in source order
Keys(table) == [i \in 1..Len(table) |-> table[i][1]]

Sorted(keys) == SortByLen(keys, 1..Len(keys))

SortedSynonymKeys == Sorted(Keys(CONCERN_SYNONYMS))

\* the key the alternation \b(k1|k2|...)\b matches at the head of text: the
\* first alternative, in pattern order, that is a prefix of it (<<>> if none).
\* Keys start and end with a word token, so \b holds at token borders.
IsPrefix(key, text) == Len(key) <= Len(text) /\ SubSeq(text, 1, Len(key)) = key

FirstPrefix(keys, text) ==
    IF \E i \in 1..Len(keys) : IsPrefix(keys[i], text)
    THEN keys[CHOOSE i \in 1..Len(keys) :
                  /\ IsPrefix(keys[i], text)
                  /\ \A j \in 1..(i - 1) : ~IsPrefix(keys[j], text)]
    ELSE <<>>

MatchAt(text) == FirstPrefix(SortedSynonymKeys, text)

\* _extract_concern_tokens: re.finditer over the text, canonical concerns in
\* order of first appearance
RECURSIVE ExtractFrom(_, _)
ExtractFrom(text, matches) ==
    IF text = <<>> THEN matches
    ELSE LET key == MatchAt(text)
         IN  IF key = <<>> THEN ExtractFrom(Tail(text), matches)
             ELSE ExtractFrom(SubSeq(text, Len(key) + 1, Len(text)),
                              AppendNew(matches, SynonymOf(key)))

_extract_concern_tokens(text) == ExtractFrom(text, <<>>)

\* the loop over parts of _parse_concerns
RECURSIVE ParseParts(_, _)
ParseParts(parts, selections) ==
    IF parts = <<>> THEN selections
    ELSE LET part == Head(parts)
         IN  IF SynonymOf(part) # None
             THEN ParseParts(Tail(parts), AppendNew(selections, SynonymOf(part)))
             ELSE ParseParts(Tail(parts), ExtractFrom(part, selections))

\* [part.strip() for part in normalized.split(",") if part.strip()]
RECURSIVE StripParts(_)
StripParts(segs) ==
    IF segs = <<>> THEN <<>>
    ELSE IF strip(Head(segs)) = <<>> THEN StripParts(Tail(segs))
    ELSE <<strip(Head(segs))>> \o StripParts(Tail(segs))

\* the separators of _parse_concerns rewritten to ","
NormalizeSeparators(raw) ==
    LET n1 == replace(lower(raw), Phrase(<<"stomach", "and", "intestines">>),
                      Phrase(<<"stomach", "&", "intestines">>))
        n2 == replace(n1, Phrase(<<"hair", "and", "nails">>), Phrase(<<"hair", "&", "nails">>))
        n3 == replace(n2, Phrase(<<"hair", "nails">>), Phrase(<<"hair", "&", "nails">>))
        n4 == sub_slash(n3)
        n5 == replace(n4, <<";">>, <<",">>)
        n6 == replace(n5, <<"|">>, <<",">>)
    IN  sub_and(n6)

\* the selections of the comma-separated parts, or, when they give none, the
\* concerns found anywhere in the text
SelectionsOrTokens(selections, normalized) ==
    IF selections = <<>> THEN _extract_concern_tokens(normalized) ELSE selections

ParseNormalized(normalized) ==
    SelectionsOrTokens(ParseParts(StripParts(split(normalized, ",")), <<>>), normalized)

_parse_concerns(raw) ==
    IF raw = <<>> THEN <<>> ELSE ParseNormalized(NormalizeSeparators(raw))

\* str(item) of a stored concern key: its characters are word characters only,
\* so the text is the single token
StrOf(item) == <<item>>

\* _normalize_concerns of a list: every item is parsed again as text
RECURSIVE NormalizeList(_, _)
NormalizeList(items, ordered) ==
    IF items = <<>> THEN ordered
    ELSE LET parsed == _parse_concerns(StrOf(Head(items)))
             RECURSIVE AddAll(_, _)
             AddAll(ps, acc) == IF ps = <<>> THEN acc
                                ELSE AddAll(Tail(ps), AppendNew(acc, Head(ps)))
         IN  NormalizeList(Tail(items), AddAll(parsed, ordered))

_normalize_concerns(raw_value) == NormalizeList(raw_value, <<>>)

\* a Python value with its type: a list of items, a str, or None
List(items) == [type |-> "list", value |-> items]
Str(text) == [type |-> "str", value |-> text]
NoneValue == [type |-> "NoneType", value |-> <<>>]

\* _normalize_concerns with its isinstance tests: a list goes item by item,
\* a str is parsed, anything else gives []
normalize_concerns(raw) ==
    IF raw.type = "list" THEN _normalize_concerns(raw.value)
    ELSE IF raw.type = "str" THEN _parse_concerns(raw.value)
    ELSE <<>>

\* a field key "a|b|c" is the sequence of its "|"-separated parts
_concern_field_key(concern, question_id) == <<"concern", concern, question_id>>

\* (concern, question id) of a key that starts with "concern|" and has three
\* parts; the empty tuple stands for None
_parse_concern_field(field) ==
    IF Len(field) = 3 /\ field[1] = "concern" THEN <<field[2], field[3]>> ELSE <<>>

\* a faulty QuestionsOf: only the first question of the concern
FirstQuestionOf(concern) ==
    IF concern \in Concerns THEN <<CONCERN_QUESTIONS[concern][1]>> ELSE <<>>

\* CONCERN_QUESTIONS.get(concern, {}).get("questions", [])
QuestionsOf(concern) ==
    IF concern \in Concerns THEN CONCERN_QUESTIONS[concern] ELSE <<>>

RECURSIVE _concern_followup_steps(_)
_concern_followup_steps(concerns) ==
    IF concerns = <<>> THEN <<>>
    ELSE [i \in 1..Len(QuestionsOf(Head(concerns))) |->
             _concern_field_key(Head(concerns), QuestionsOf(Head(concerns))[i])]
         \o _concern_followup_steps(Tail(concerns))

(***************************************************************************)
(* Validators: the alias tables of _validate_response.                     *)
(***************************************************************************)
W(word) == <<word>>

\* allowed of for_whom (lines 1702-1716): <<key, normalized>>
ALLOWED_for_whom ==
    { <<<<"me">>, <<"self">>>>,
      <<<<"myself">>, <<"self">>>>,
      <<<<"self">>, <<"self">>>>,
      <<<<"for", " ", "me">>, <<"self">>>>,
      <<<<"no">>, <<"self">>>>,
      <<<<"family">>, <<"family">>>>,
      <<<<"family", " ", "member">>, <<"family">>>>,
      <<<<"for", " ", "family">>, <<"family">>>>,
      <<<<"for", " ", "my", " ", "family">>, <<"family">>>>,
      <<<<"friend">>, <<"family">>>>,
      <<<<"partner">>, <<"family">>>>,
      <<<<"spouse">>, <<"family">>>>,
      <<<<"yes">>, <<"family">>>> }

\* allowed of knowledge (lines 1751-1758): <<key, normalized>>
ALLOWED_knowledge ==
    { <<<<"well", " ", "informed">>, <<"well", " ", "informed">>>>,
      <<<<"well", "-", "informed">>, <<"well", " ", "informed">>>>,
      <<<<"informed">>, <<"well", " ", "informed">>>>,
      <<<<"curious">>, <<"curious">>>>,
      <<<<"skeptical">>, <<"skeptical">>>>,
      <<<<"sceptical">>, <<"skeptical">>>> }

\* allowed of vitamin_count (lines 1765-1779): <<key, normalized>>
ALLOWED_vitamin_count ==
    { <<<<"no">>, <<"0">>>>,
      <<<<"none">>, <<"0">>>>,
      <<<<"0">>, <<"0">>>>,
      <<<<"1">>, <<"1", " ", "to", " ", "3">>>>,
      <<<<"2">>, <<"1", " ", "to", " ", "3">>>>,
      <<<<"3">>, <<"1", " ", "to", " ", "3">>>>,
      <<<<"1", " ", "to", " ", "3">>, <<"1", " ", "to", " ", "3">>>>,
      <<<<"1", "-", "3">>, <<"1", " ", "to", " ", "3">>>>,
      <<<<"4">>, <<"4", "+">>>>,
      <<<<"4", "+">>, <<"4", "+">>>>,
      <<<<"5">>, <<"4", "+">>>>,
      <<<<"5", "+">>, <<"4", "+">>>>,
      <<<<"many">>, <<"4", "+">>>> }

\* allowed of gender (lines 1786-1798): <<key, normalized>>
ALLOWED_gender ==
    { <<<<"male">>, <<"male">>>>,
      <<<<"man">>, <<"male">>>>,
      <<<<"m">>, <<"male">>>>,
      <<<<"woman">>, <<"female">>>>,
      <<<<"women">>, <<"female">>>>,
      <<<<"female">>, <<"female">>>>,
      <<<<"f">>, <<"female">>>>,
      <<<<"gender", " ", "neutral">>, <<"gender", " ", "neutral">>>>,
      <<<<"neutral">>, <<"gender", " ", "neutral">>>>,
      <<<<"non", "-", "binary">>, <<"gender", " ", "neutral">>>>,
      <<<<"nonbinary">>, <<"gender", " ", "neutral">>>> }

\* allowed of situation (lines 1813-1820): <<key, normalized>>
ALLOWED_situation ==
    { <<<<"to", " ", "get", " ", "pregnant", " ", "in", " ", "the", " ", "next", " ", "2", " ", "years">>, <<"planning", " ", "(", "2", " ", "years", ")">>>>,
      <<<<"planning">>, <<"planning", " ", "(", "2", " ", "years", ")">>>>,
      <<<<"next", " ", "2", " ", "years">>, <<"planning", " ", "(", "2", " ", "years", ")">>>>,
      <<<<"i", " ", "am", " ", "pregnant", " ", "now">>, <<"pregnant">>>>,
      <<<<"pregnant">>, <<"pregnant">>>>,
      <<<<"breastfeeding">>, <<"breastfeeding">>>> }

\* allowed of lifestyle_status (lines 1878-1885): <<key, normalized>>
ALLOWED_lifestyle_status ==
    { <<<<"been", " ", "doing", " ", "well", " ", "for", " ", "a", " ", "long", " ", "time">>, <<"been", " ", "doing", " ", "well", " ", "for", " ", "a", " ", "long", " ", "time">>>>,
      <<<<"doing", " ", "well">>, <<"been", " ", "doing", " ", "well", " ", "for", " ", "a", " ", "long", " ", "time">>>>,
      <<<<"nice", " ", "on", " ", "the", " ", "way">>, <<"nice", " ", "on", " ", "the", " ", "way">>>>,
      <<<<"on", " ", "the", " ", "way">>, <<"nice", " ", "on", " ", "the", " ", "way">>>>,
      <<<<"ready", " ", "to", " ", "start">>, <<"ready", " ", "to", " ", "start">>>>,
      <<<<"starting">>, <<"ready", " ", "to", " ", "start">>>> }

\* allowed of fruit_intake, vegetable_intake, dairy_intake, fiber_intake, protein_intake (lines 1892-1904): <<key, normalized>>
ALLOWED_fruit_intake ==
    { <<<<"hardly">>, <<"hardly">>>>,
      <<<<"rarely">>, <<"hardly">>>>,
      <<<<"seldom">>, <<"hardly">>>>,
      <<<<"one", " ", "time">>, <<"one", " ", "time">>>>,
      <<<<"once">>, <<"one", " ", "time">>>>,
      <<<<"1">>, <<"one", " ", "time">>>>,
      <<<<"twice", " ", "or", " ", "more">>, <<"twice", " ", "or", " ", "more">>>>,
      <<<<"twice">>, <<"twice", " ", "or", " ", "more">>>>,
      <<<<"2">>, <<"twice", " ", "or", " ", "more">>>>,
      <<<<"more">>, <<"twice", " ", "or", " ", "more">>>>,
      <<<<"multiple">>, <<"twice", " ", "or", " ", "more">>>> }

\* allowed of eating_habits (lines 1911-1918): <<key, normalized>>
ALLOWED_eating_habits ==
    { <<<<"no", " ", "preference">>, <<"no", " ", "preference">>>>,
      <<<<"none">>, <<"no", " ", "preference">>>>,
      <<<<"flexitarian">>, <<"flexitarian">>>>,
      <<<<"vegetarian">>, <<"vegetarian">>>>,
      <<<<"veg">>, <<"vegetarian">>>>,
      <<<<"vegan">>, <<"vegan">>>> }

\* allowed of meat_intake, fish_intake (lines 1925-1936): <<key, normalized>>
ALLOWED_meat_intake ==
    { <<<<"never">>, <<"never">>>>,
      <<<<"no">>, <<"never">>>>,
      <<<<"once", " ", "or", " ", "twice">>, <<"once", " ", "or", " ", "twice">>>>,
      <<<<"once">>, <<"once", " ", "or", " ", "twice">>>>,
      <<<<"twice">>, <<"once", " ", "or", " ", "twice">>>>,
      <<<<"1", "-", "2">>, <<"once", " ", "or", " ", "twice">>>>,
      <<<<"three", " ", "times", " ", "or", " ", "more">>, <<"three", " ", "times", " ", "or", " ", "more">>>>,
      <<<<"three">>, <<"three", " ", "times", " ", "or", " ", "more">>>>,
      <<<<"3">>, <<"three", " ", "times", " ", "or", " ", "more">>>>,
      <<<<"more">>, <<"three", " ", "times", " ", "or", " ", "more">>>> }

\* allowed of allergies (lines 1951-1968): <<key, normalized>>
ALLOWED_allergies ==
    { <<<<"no">>, <<"no">>>>,
      <<<<"none">>, <<"no">>>>,
      <<<<"milk">>, <<"milk">>>>,
      <<<<"egg">>, <<"egg">>>>,
      <<<<"eggs">>, <<"egg">>>>,
      <<<<"fish">>, <<"fish">>>>,
      <<<<"shellfish", " ", "and", " ", "crustaceans">>, <<"shellfish", " ", "and", " ", "crustaceans">>>>,
      <<<<"shellfish">>, <<"shellfish", " ", "and", " ", "crustaceans">>>>,
      <<<<"crustaceans">>, <<"shellfish", " ", "and", " ", "crustaceans">>>>,
      <<<<"peanut">>, <<"peanut">>>>,
      <<<<"peanuts">>, <<"peanut">>>>,
      <<<<"nuts">>, <<"nuts">>>>,
      <<<<"soy">>, <<"soy">>>>,
      <<<<"gluten">>, <<"gluten">>>>,
      <<<<"wheat">>, <<"wheat">>>>,
      <<<<"pollen">>, <<"pollen">>>> }

\* allowed of dietary_preferences (lines 1984-1992): <<key, normalized>>
ALLOWED_dietary_preferences ==
    { <<<<"no", " ", "preference">>, <<"no", " ", "preference">>>>,
      <<<<"none">>, <<"no", " ", "preference">>>>,
      <<<<"lactose", "-", "free">>, <<"lactose", "-", "free">>>>,
      <<<<"lactose", " ", "free">>, <<"lactose", "-", "free">>>>,
      <<<<"gluten", " ", "free">>, <<"gluten", " ", "free">>>>,
      <<<<"gluten", "-", "free">>, <<"gluten", " ", "free">>>>,
      <<<<"paleo">>, <<"paleo">>>> }

\* allowed of ayurveda_view (lines 1999-2014): <<key, normalized>>
ALLOWED_ayurveda_view ==
    { <<<<"i", " ", "am", " ", "convinced">>, <<"i", " ", "am", " ", "convinced">>>>,
      <<<<"convinced">>, <<"i", " ", "am", " ", "convinced">>>>,
      <<<<"we", " ", "can", " ", "learn", " ", "a", " ", "lot", " ", "from", " ", "ancient", " ", "medicine">>, <<"we", " ", "can", " ", "learn", " ", "a", " ", "lot", " ", "from", " ", "ancient", " ", "medicine">>>>,
      <<<<"learn", " ", "from", " ", "ancient", " ", "medicine">>, <<"we", " ", "can", " ", "learn", " ", "a", " ", "lot", " ", "from", " ", "ancient", " ", "medicine">>>>,
      <<<<"ancient", " ", "medicine">>, <<"we", " ", "can", " ", "learn", " ", "a", " ", "lot", " ", "from", " ", "ancient", " ", "medicine">>>>,
      <<<<"i", " ", "am", " ", "open", " ", "to", " ", "it">>, <<"i", " ", "am", " ", "open", " ", "to", " ", "it">>>>,
      <<<<"open", " ", "to", " ", "it">>, <<"i", " ", "am", " ", "open", " ", "to", " ", "it">>>>,
      <<<<"open">>, <<"i", " ", "am", " ", "open", " ", "to", " ", "it">>>>,
      <<<<"more", " ", "information", " ", "needed", " ", "for", " ", "an", " ", "opinion">>, <<"more", " ", "information", " ", "needed", " ", "for", " ", "an", " ", "opinion">>>>,
      <<<<"need", " ", "more", " ", "information">>, <<"more", " ", "information", " ", "needed", " ", "for", " ", "an", " ", "opinion">>>>,
      <<<<"i", " ", "am", " ", "skeptical">>, <<"i", " ", "am", " ", "skeptical">>>>,
      <<<<"skeptical">>, <<"i", " ", "am", " ", "skeptical">>>>,
      <<<<"alternative", " ", "medicine", " ", "is", " ", "nonsense">>, <<"alternative", " ", "medicine", " ", "is", " ", "nonsense">>>>,
      <<<<"nonsense">>, <<"alternative", " ", "medicine", " ", "is", " ", "nonsense">>>> }

\* allowed of new_product_attitude (lines 2021-2033): <<key, normalized>>
ALLOWED_new_product_attitude ==
    { <<<<"to", " ", "be", " ", "the", " ", "first">>, <<"to", " ", "be", " ", "the", " ", "first">>>>,
      <<<<"first">>, <<"to", " ", "be", " ", "the", " ", "first">>>>,
      <<<<"you", " ", "are", " ", "at", " ", "the", " ", "forefront", " ", "of", " ", "new", " ", "products">>, <<"you", " ", "are", " ", "at", " ", "the", " ", "forefront", " ", "of", " ", "new", " ", "products">>>>,
      <<<<"forefront">>, <<"you", " ", "are", " ", "at", " ", "the", " ", "forefront", " ", "of", " ", "new", " ", "products">>>>,
      <<<<"learn", " ", "more">>, <<"learn", " ", "more">>>>,
      <<<<"you", " ", "are", " ", "cautiously", " ", "optimistic">>, <<"you", " ", "are", " ", "cautiously", " ", "optimistic">>>>,
      <<<<"cautiously", " ", "optimistic">>, <<"you", " ", "are", " ", "cautiously", " ", "optimistic">>>>,
      <<<<"waiting", " ", "for", " ", "now">>, <<"waiting", " ", "for", " ", "now">>>>,
      <<<<"waiting">>, <<"waiting", " ", "for", " ", "now">>>>,
      <<<<"scientific", " ", "research", " ", "takes", " ", "time">>, <<"scientific", " ", "research", " ", "takes", " ", "time">>>>,
      <<<<"research", " ", "takes", " ", "time">>, <<"scientific", " ", "research", " ", "takes", " ", "time">>>> }

\* text in allowed, and allowed[text]
HasKey(allowed, text) == \E p \in allowed : p[1] = text

Lookup(allowed, text) == (CHOOSE p \in allowed : p[1] = text)[2]

Valid(normalized) == [valid |-> TRUE, normalized |-> normalized, error |-> None]

Invalid(val, error) == [valid |-> FALSE, normalized |-> val, error |-> error]

ByTable(allowed, val, error) ==
    IF HasKey(allowed, lower(val))
    THEN Valid(Lookup(allowed, lower(val)))
    ELSE Invalid(val, error)

\* the yes/no shape shared by several fields
YesNo(yes_set, no_set, val, error) ==
    IF lower(val) \in yes_set THEN Valid(W("yes"))
    ELSE IF lower(val) \in no_set THEN Valid(W("no"))
    ELSE Invalid(val, error)

\* str.isdigit() and int() on the numerals of the vocabulary; a numeral is one token
Numerals == {"0", "1", "2", "3", "4", "5", "27", "027", "100", "101"}

isdigit(val) == Len(val) = 1 /\ val[1] \in Numerals

int(val) ==
    CASE val[1] = "0" -> 0 [] val[1] = "1" -> 1 [] val[1] = "2" -> 2
      [] val[1] = "3" -> 3 [] val[1] = "4" -> 4 [] val[1] = "5" -> 5
      [] val[1] \in {"27", "027"} -> 27
      [] val[1] = "100" -> 100 [] val[1] = "101" -> 101

\* str(n) for the ages above
str(n) ==
    CASE n = 1 -> W("1") [] n = 2 -> W("2") [] n = 3 -> W("3") [] n = 4 -> W("4")
      [] n = 5 -> W("5") [] n = 27 -> W("27") [] n = 100 -> W("100")

\* val.split("@")[-1]: the text after the last "@"
RECURSIVE AfterLast(_, _)
AfterLast(text, sep) ==
    IF InSeq(sep, text)
    THEN AfterLast(SubSeq(text, IndexOf(sep, text) + 1, Len(text)), sep)
    ELSE text

\* the allergies validator: a comma list keeps its known parts
RECURSIVE ValidParts(_)
ValidParts(parts) ==
    IF parts = <<>> THEN <<>>
    ELSE IF HasKey(ALLOWED_allergies, strip(Head(parts)))
         THEN <<Lookup(ALLOWED_allergies, strip(Head(parts)))>> \o ValidParts(Tail(parts))
         ELSE ValidParts(Tail(parts))

\* ", ".join(parts)
RECURSIVE join(_)
join(parts) ==
    IF Len(parts) = 0 THEN <<>>
    ELSE IF Len(parts) = 1 THEN parts[1]
    ELSE parts[1] \o <<",", SP>> \o join(Tail(parts))

IntakeFields == {"fruit_intake", "vegetable_intake", "dairy_intake", "fiber_intake",
                 "protein_intake"}

YesNoFields == {"drinks_alcohol", "alcohol_daily", "alcohol_weekly", "coffee_intake",
                "smokes", "sunlight_exposure", "iron_advised", "medical_treatment",
                "previous_concern_followup"}

\* _validate_response: (valid, normalized, error); the error is named by the
\* field whose message it is
_validate_response(field, raw_value, responses) ==
    LET val == strip(raw_value)
        f == field[1]
    IN  CASE field = W("name") ->
               IF StrLen(val) < 2 THEN Invalid(val, "name") ELSE Valid(val)
          [] field = W("for_whom") -> ByTable(ALLOWED_for_whom, val, "for_whom")
          [] field = W("family_name") ->
               IF StrLen(val) < 2 THEN Invalid(val, "family_name") ELSE Valid(val)
          [] field = W("relation") ->
               IF StrLen(val) < 3 THEN Invalid(val, "relation") ELSE Valid(val)
          [] field = W("age") ->
               IF ~isdigit(val) THEN Invalid(val, "age_number")
               ELSE IF int(val) <= 0 \/ int(val) > 100 THEN Invalid(val, "age_range")
               ELSE Valid(str(int(val)))
          [] field = W("protein") ->
               YesNo({W("yes"), W("y"), W("yeah"), W("yep"), W("sure"), W("taking"),
                      Phrase(<<"i", "do">>)},
                     {W("no"), W("n"), W("nope"), W("nah"), W("not")}, val, "protein")
          [] field = W("knowledge") -> ByTable(ALLOWED_knowledge, val, "knowledge")
          [] field = W("vitamin_count") -> ByTable(ALLOWED_vitamin_count, val, "vitamin_count")
          [] field = W("gender") -> ByTable(ALLOWED_gender, val, "gender")
          [] field = W("conceive") ->
               YesNo({W("yes"), W("y"), W("yeah"), W("yep")},
                     {W("no"), W("n"), W("nope"), W("nah")}, val, "conceive")
          [] field = W("situation") -> ByTable(ALLOWED_situation, val, "situation")
          [] field = W("children") ->
               YesNo({W("yes"), W("y"), W("yeah"), W("yep")},
                     {W("no"), W("n"), W("nope"), W("nah")}, val, "children")
          [] field = W("email") ->
               IF InSeq("@", val) /\ InSeq(".", AfterLast(val, "@")) /\ StrLen(val) > 5
               THEN Valid(val) ELSE Invalid(val, "email")
          [] field = W("concern") ->
               IF _parse_concerns(val) # <<>> THEN Valid(_parse_concerns(val))
               ELSE Invalid(val, "concern")
          [] _parse_concern_field(field) # <<>> ->
               IF val = <<>> THEN Invalid(val, "concern_question") ELSE Valid(val)
          [] field = W("lifestyle_status") ->
               ByTable(ALLOWED_lifestyle_status, val, "lifestyle_status")
          [] Len(field) = 1 /\ f \in IntakeFields ->
               ByTable(ALLOWED_fruit_intake, val, "intake")
          [] field = W("eating_habits") -> ByTable(ALLOWED_eating_habits, val, "eating_habits")
          [] Len(field) = 1 /\ f \in {"meat_intake", "fish_intake"} ->
               ByTable(ALLOWED_meat_intake, val, "meat_fish")
          [] Len(field) = 1 /\ f \in YesNoFields ->
               YesNo({W("yes"), W("y"), W("yeah"), W("yep"), W("sure")},
                     {W("no"), W("n"), W("nope"), W("nah"), W("not")}, val, "yes_no")
          [] field = W("allergies") ->
               IF InSeq(",", lower(val)) /\ ValidParts(split(lower(val), ",")) # <<>>
               THEN Valid(join(ValidParts(split(lower(val), ","))))
               ELSE ByTable(ALLOWED_allergies, val, "allergies")
          [] field = W("dietary_preferences") ->
               ByTable(ALLOWED_dietary_preferences, val, "dietary_preferences")
          [] field = W("ayurveda_view") -> ByTable(ALLOWED_ayurveda_view, val, "ayurveda_view")
          [] field = W("new_product_attitude") ->
               ByTable(ALLOWED_new_product_attitude, val, "new_product_attitude")
          [] OTHER -> Valid(val)

(***************************************************************************)
(* The response map and the step list.                                     *)
(*                                                                         *)
(* responses is a function from field keys to stored values; a value is a  *)
(* text, or for "concern" a list of canonical concerns, or for             *)
(* "concern_details" a nested map concern -> question id -> text.          *)
(***************************************************************************)
Put(map, key, value) ==
    [k \in DOMAIN map \cup {key} |-> IF k = key THEN value ELSE map[k]]

EmptyMap == [k \in {} |-> <<>>]

\* (responses.get(key) or ""), for a text-valued key
GetText(responses, key) ==
    IF key \in DOMAIN responses THEN responses[key] ELSE <<>>

\* _normalize_concerns(responses.get("concern")): an absent key is None and
\* gives the empty list
StoredConcerns(responses) ==
    IF W("concern") \in DOMAIN responses
    THEN _normalize_concerns(responses[W("concern")])
    ELSE <<>>

Fields(names) == [i \in 1..Len(names) |-> W(names[i])]

\* the step list from the answers it depends on
StepList(for_whom, gender, conceive, eating_habits, drinks_alcohol, concerns, has_previous_sessions, should_ask_previous_concern_followup) ==
    (IF ~has_previous_sessions THEN Fields(<<"name">>) ELSE <<>>)
    \o Fields(<<"for_whom">>)
    \o (IF for_whom = W("family") THEN Fields(<<"family_name", "relation">>) ELSE <<>>)
    \o Fields(<<"age">>)
    \o (IF has_previous_sessions /\ for_whom = W("me")
        THEN Fields(<<"protein">>)
        ELSE (IF ~has_previous_sessions
              THEN Fields(<<"email", "knowledge", "vitamin_count">>) ELSE <<>>)
             \o Fields(<<"protein">>)
             \o (IF ~has_previous_sessions THEN Fields(<<"gender">>) ELSE <<>>))
    \o (IF gender \in {W("woman"), W("female"), Phrase(<<"gender", "neutral">>)}
        THEN Fields(<<"conceive">>)
             \o (IF conceive = W("yes") THEN Fields(<<"situation">>) ELSE <<>>)
        ELSE IF gender = W("male") THEN Fields(<<"children">>) ELSE <<>>)
    \o Fields(<<"concern">>)
    \o (IF concerns # <<>> THEN _concern_followup_steps(concerns) ELSE <<>>)
    \o Fields(<<"lifestyle_status", "fruit_intake", "vegetable_intake", "dairy_intake",
                "fiber_intake", "protein_intake", "eating_habits">>)
    \o (IF eating_habits \notin {W("vegetarian"), W("vegan")}
        THEN Fields(<<"meat_intake", "fish_intake">>) ELSE <<>>)
    \o Fields(<<"drinks_alcohol">>)
    \o (IF drinks_alcohol \in {W("yes"), W("y"), W("yeah"), W("yep")}
        THEN Fields(<<"alcohol_daily", "alcohol_weekly">>) ELSE <<>>)
    \o Fields(<<"coffee_intake", "smokes">>)
    \o Fields(<<"allergies", "dietary_preferences", "sunlight_exposure", "iron_advised",
                "ayurveda_view", "new_product_attitude">>)
    \o (IF should_ask_previous_concern_followup
        THEN Fields(<<"previous_concern_followup">>) ELSE <<>>)
    \o Fields(<<"medical_treatment">>)

\* a faulty _ordered_steps: the eating_habits answer is not read
_ordered_steps_any_diet(responses, has_previous_sessions, should_ask_previous_concern_followup) ==
    StepList(GetText(responses, W("for_whom")),
             lower(GetText(responses, W("gender"))),
             lower(GetText(responses, W("conceive"))),
             <<>>,
             lower(GetText(responses, W("drinks_alcohol"))),
             StoredConcerns(responses),
             has_previous_sessions, should_ask_previous_concern_followup)

\* a faulty _ordered_steps: every user is taken for a first-time user
_ordered_steps_first_time(responses, has_previous_sessions, should_ask_previous_concern_followup) ==
    StepList(GetText(responses, W("for_whom")),
             lower(GetText(responses, W("gender"))),
             lower(GetText(responses, W("conceive"))),
             lower(GetText(responses, W("eating_habits"))),
             lower(GetText(responses, W("drinks_alcohol"))),
             StoredConcerns(responses),
             FALSE, should_ask_previous_concern_followup)

\* a faulty _ordered_steps: the drinks_alcohol answer is taken for yes
_ordered_steps_any_drinker(responses, has_previous_sessions, should_ask_previous_concern_followup) ==
    StepList(GetText(responses, W("for_whom")),
             lower(GetText(responses, W("gender"))),
             lower(GetText(responses, W("conceive"))),
             lower(GetText(responses, W("eating_habits"))),
             W("yes"),
             StoredConcerns(responses),
             has_previous_sessions, should_ask_previous_concern_followup)

_ordered_steps(responses, has_previous_sessions, should_ask_previous_concern_followup) ==
    StepList(GetText(responses, W("for_whom")),
             lower(GetText(responses, W("gender"))),
             lower(GetText(responses, W("conceive"))),
             lower(GetText(responses, W("eating_habits"))),
             lower(GetText(responses, W("drinks_alcohol"))),
             StoredConcerns(responses),
             has_previous_sessions, should_ask_previous_concern_followup)

\* the concern branch of _save_response: the parsed list is normalized again
SaveConcern(normalized, responses) ==
    Put(responses, W("concern"), _normalize_concerns(normalized))

\* a faulty SaveConcernDetail: one bucket for all concerns
SaveConcernDetailShared(concern_key, question_id, normalized, responses) ==
    LET details == IF W("concern_details") \in DOMAIN responses
                   THEN responses[W("concern_details")] ELSE EmptyMap
    IN  Put(responses, W("concern_details"),
            [c \in DOMAIN details \cup {concern_key} |->
                Put(IF c \in DOMAIN details THEN details[c] ELSE EmptyMap,
                    question_id, normalized)])

\* the follow-up branch: concern_details[concern][question id] = normalized
SaveConcernDetail(concern_key, question_id, normalized, responses) ==
    LET details == IF W("concern_details") \in DOMAIN responses
                   THEN responses[W("concern_details")] ELSE EmptyMap
        bucket == IF concern_key \in DOMAIN details THEN details[concern_key] ELSE EmptyMap
    IN  Put(responses, W("concern_details"),
            Put(details, concern_key, Put(bucket, question_id, normalized)))

_save_response(field, normalized, responses) ==
    IF field = W("concern") THEN SaveConcern(normalized, responses)
    ELSE IF _parse_concern_field(field) # <<>>
    THEN SaveConcernDetail(_parse_concern_field(field)[1], _parse_concern_field(field)[2],
                           normalized, responses)
    ELSE Put(responses, field, normalized)

(***************************************************************************)
(* The onboarding state.  The stored document may hold any key a turn      *)
(* wrote; _get_onboarding_state reads eight of them and every other key    *)
(* starts a turn absent.  An absent flag is FALSE, an absent list or text  *)
(* is <<>>, an absent previous_concern_resolved is "None".                 *)
(***************************************************************************)
NoExtras ==
    [should_ask_previous_concern_followup |-> FALSE,
     previous_concern_followup_checked |-> FALSE,
     previous_concern_followup_response |-> <<>>,
     previous_concern_checked |-> FALSE,
     awaiting_previous_concern_response |-> FALSE,
     previous_concern_resolved |-> "None",
     previous_concerns |-> <<>>,
     previous_products |-> <<>>,
     recommendations_shown |-> FALSE,
     recommended_product_titles |-> <<>>]

Loaded(step, awaiting_answer, awaiting_registration_confirmation, responses, complete, last_answer, last_field, first_question_shown) ==
    [step |-> step,
     awaiting_answer |-> awaiting_answer,
     awaiting_registration_confirmation |-> awaiting_registration_confirmation,
     responses |-> responses,
     complete |-> complete,
     last_answer |-> last_answer,
     last_field |-> last_field,
     first_question_shown |-> first_question_shown] @@ NoExtras

_get_onboarding_state(stored) ==
    Loaded(stored.step, stored.awaiting_answer, stored.awaiting_registration_confirmation,
           stored.responses, stored.complete, stored.last_answer, stored.last_field,
           stored.first_question_shown)

\* the state of a session whose metadata holds no onboarding entry
DefaultState == Loaded(0, FALSE, FALSE, EmptyMap, FALSE, <<>>, <<>>, FALSE)

(***************************************************************************)
(* The user's other interviews (the sessions of the user document, oldest  *)
(* first).  products are the product names the recommendation message of   *)
(* the session yields.                                                     *)
(***************************************************************************)
PriorSession(id, has_messages, complete, responses, products) ==
    [session_id |-> id, has_messages |-> has_messages, complete |-> complete,
     responses |-> responses, products |-> products]

SleepSession ==
    PriorSession("s1", TRUE, TRUE,
                 W("name") :> W("Al") @@ W("email") :> <<"a", "@", "b", ".", "co">>
                 @@ W("gender") :> W("female") @@ W("concern") :> <<"sleep">>,
                 <<"P1">>)

StressSession ==
    PriorSession("s2", TRUE, TRUE,
                 W("name") :> W("Al") @@ W("gender") :> W("male")
                 @@ W("concern") :> <<"stress", "sleep">>,
                 <<"P2">>)

OpenSession ==
    PriorSession("s3", TRUE, FALSE, W("concern") :> <<"sleep">>, <<>>)

\* the histories a registered user may have when the session is created
PriorChoices ==
    { <<>>, <<SleepSession>>, <<SleepSession, StressSession>>, <<OpenSession>> }

CurrentSessionId == "cur"

Reversed(seq) == [i \in 1..Len(seq) |-> seq[Len(seq) + 1 - i]]

\* SessionRepository.create: a prior session with messages or a completed
\* onboarding makes the user a returning user
HasPreviousSessions(existing_sessions) ==
    \E i \in 1..Len(existing_sessions) :
        existing_sessions[i].has_messages \/ existing_sessions[i].complete

\* _get_previous_session_data: name, email and gender, each from the most
\* recent completed session that holds it
RECURSIVE PreviousData(_, _)
PreviousData(sessions, previous_data) ==
    IF sessions = <<>> THEN previous_data
    ELSE IF {W("name"), W("email"), W("gender")} \subseteq DOMAIN previous_data
    THEN previous_data
    ELSE LET session == Head(sessions)
             found == IF session.complete /\ session.responses # EmptyMap
                      THEN [k \in ({W("name"), W("email"), W("gender")}
                                   \cap DOMAIN session.responses)
                                  \ DOMAIN previous_data |-> session.responses[k]]
                      ELSE EmptyMap
         IN  PreviousData(Tail(sessions), previous_data @@ found)

\* a faulty _get_previous_session_data: the oldest session first
_get_previous_session_data_oldest(user_id, sessions) ==
    IF user_id = None THEN EmptyMap ELSE PreviousData(sessions, EmptyMap)

_get_previous_session_data(user_id, sessions) ==
    IF user_id = None THEN EmptyMap ELSE PreviousData(Reversed(sessions), EmptyMap)

NoPreviousSession == [previous_concerns |-> <<>>, previous_products |-> <<>>]

\* _get_previous_session_concerns_and_products: the most recent completed
\* session, other than the current one, that has a concern recorded
RECURSIVE PreviousConcerns(_, _)
PreviousConcerns(sessions, current_session_id) ==
    IF sessions = <<>> THEN NoPreviousSession
    ELSE LET session == Head(sessions)
         IN  IF session.session_id = current_session_id
             THEN PreviousConcerns(Tail(sessions), current_session_id)
             ELSE IF session.complete /\ session.responses # EmptyMap
                     /\ StoredConcerns(session.responses) # <<>>
             THEN [previous_concerns |-> StoredConcerns(session.responses),
                   previous_products |-> SubSeq(session.products, 1,
                                                IF Len(session.products) < 3
                                                THEN Len(session.products) ELSE 3)]
             ELSE PreviousConcerns(Tail(sessions), current_session_id)

_get_previous_session_concerns_and_products(user_id, sessions, current_session_id) ==
    IF user_id = None THEN NoPreviousSession
    ELSE PreviousConcerns(Reversed(sessions), current_session_id)

\* a faulty MajorConcernSame: any concern of the two sessions may match
AnyConcernSame(previous_concerns, current_concerns) ==
    \E i \in 1..Len(previous_concerns), j \in 1..Len(current_concerns) :
        previous_concerns[i] = current_concerns[j]

\* the first concern of the previous session against the first current concern
MajorConcernSame(previous_concerns, current_concerns) ==
    previous_concerns[1] = current_concerns[1]

_check_if_major_concern_same(user_id, sessions, current_session_id, current_concerns) ==
    IF user_id = None \/ current_concerns = <<>> THEN FALSE
    ELSE LET previous_concerns ==
                 _get_previous_session_concerns_and_products(
                     user_id, sessions, current_session_id).previous_concerns
         IN  IF previous_concerns = <<>> THEN FALSE
             ELSE MajorConcernSame(previous_concerns, current_concerns)

(***************************************************************************)
(* Stored messages, replies and the product catalogue.                     *)
(*                                                                         *)
(* A message is named by what it is: the user's message, a question, a     *)
(* validation error, ...  The handlers read one thing of the stored        *)
(* messages, whether there are any, so the session keeps that; the         *)
(* messages one call appends are kept in full, in order.                   *)
(***************************************************************************)
MessageKinds ==
    {"user", "question", "error", "registration", "redirect", "registration_reask",
     "recommendation", "end", "previous_concern_question", "previous_concern_reask",
     "assistant"}

\* SessionRepository.append_messages
append_messages(has_messages, new) == has_messages \/ new # <<>>

\* len(session.messages) == 0
IsEmpty(has_messages) == ~has_messages

LOGIN_URL == "https://viteezy.nl/login"

\* ChatResponse: reply is the kind of the reply message ("None" for a null
\* reply), field the question the reply asks or re-asks (<<>> for none)
ChatResponse(reply, field, redirect_url) ==
    [reply |-> reply, field |-> field, redirect_url |-> redirect_url]

NoResponse == ChatResponse("None", <<>>, None)

\* QuestionStateResponse
QuestionStateResponse(question, is_awaiting_answer, is_complete) ==
    [question |-> question, is_awaiting_answer |-> is_awaiting_answer,
     is_complete |-> is_complete]

NoQuestionState == QuestionStateResponse(<<>>, FALSE, FALSE)

\* the catalogue as find_relevant_products sees it: the titles of the
\* products that pass scoring and the safety filters, best first
CatalogChoices == {<<>>, <<"P1">>, <<"P1", "P3">>}

\* the include/exclude filter and the cut to three of find_relevant_products
find_relevant_products(catalog, exclude_product_titles, include_product_titles) ==
    LET Keep(title) ==
            /\ include_product_titles # <<>> => InSeq(title, include_product_titles)
            /\ ~InSeq(title, exclude_product_titles)
        filtered_products == SelectSeq(catalog, Keep)
    IN  SubSeq(filtered_products, 1,
               IF Len(filtered_products) < 3 THEN Len(filtered_products) ELSE 3)

\* one call of find_relevant_products as the catalogue service receives it
SearchCall(limit, exclude_product_titles, include_product_titles) ==
    [limit |-> limit, exclude_product_titles |-> exclude_product_titles,
     include_product_titles |-> include_product_titles]

\* the result of the searches so far and the calls made
SearchResult(recommended_products, searches) ==
    [recommended_products |-> recommended_products, searches |-> searches]

\* first search: without the previous products when the previous concern is
\* unresolved
FirstSearch(catalog, exclude) ==
    SearchResult(find_relevant_products(catalog, exclude, <<>>),
                 <<SearchCall(10, exclude, <<>>)>>)

\* second search: among the previous products only
SecondSearch(found, catalog, previous_products, unresolved) ==
    IF found.recommended_products = <<>> /\ previous_products # <<>> /\ unresolved
    THEN SearchResult(find_relevant_products(catalog, <<>>, previous_products),
                      Append(found.searches, SearchCall(3, <<>>, previous_products)))
    ELSE found

\* a faulty ThirdSearch: an empty result is given without a further search
ThirdSearchNever(found, catalog) == found

\* third search: unrestricted
ThirdSearch(found, catalog) ==
    IF found.recommended_products = <<>>
    THEN SearchResult(find_relevant_products(catalog, <<>>, <<>>),
                      Append(found.searches, SearchCall(3, <<>>, <<>>)))
    ELSE found

SearchProducts(st, catalog) ==
    ThirdSearch(
        SecondSearch(
            FirstSearch(catalog,
                        IF st.previous_concern_resolved = "False"
                        THEN st.previous_products ELSE <<>>),
            catalog, st.previous_products, st.previous_concern_resolved = "False"),
        catalog)

(***************************************************************************)
(* handle_message.  A turn yields the onboarding documents it writes       *)
(* (update_metadata, in order), the messages it appends (in order), the    *)
(* response and the catalogue searches it makes.  env holds what the turn  *)
(* reads besides the session: user_id, has_previous_sessions, the user's   *)
(* sessions, the catalogue and whether the language model answers.         *)
(***************************************************************************)
Outcome(writes, appended, response, searches) ==
    [writes |-> writes, appended |-> appended, response |-> response,
     searches |-> searches, generate_reply |-> "not called"]

product_context_limit == 3

\* the state changes of the handler, one per assignment group
StartInterview(st) == [st EXCEPT !.step = 0, !.awaiting_answer = TRUE]

ConfirmRegistration(st) == [st EXCEPT !.awaiting_registration_confirmation = FALSE]

\* a faulty DeclineRegistration: the interview starts over
DeclineAndRestart(st) ==
    [st EXCEPT !.awaiting_registration_confirmation = FALSE,
               !.step = 0,
               !.awaiting_answer = FALSE]

\* a faulty DeclineRegistration: the cursor stays on for_whom
DeclineAndStay(st) ==
    [st EXCEPT !.awaiting_registration_confirmation = FALSE,
               !.awaiting_answer = FALSE]

DeclineRegistration(st) ==
    [st EXCEPT !.awaiting_registration_confirmation = FALSE,
               !.step = @ + 1,
               !.awaiting_answer = FALSE]

\* a faulty Reject: the cursor moves past the rejected answer
RejectAndSkip(st) == [st EXCEPT !.step = @ + 1]

\* a rejected answer: the state is written as loaded
Reject(st) == st

\* a registration reply that is neither yes nor no: written as loaded
RejectRegistrationReply(st) == st

\* a faulty StoreAnswer: the answers stored before are dropped
StoreAnswerAlone(st, current_field, normalized) ==
    [st EXCEPT !.responses = _save_response(current_field, normalized, EmptyMap),
               !.last_answer = normalized,
               !.last_field = current_field]

StoreAnswer(st, current_field, normalized) ==
    [st EXCEPT !.responses = _save_response(current_field, normalized, @),
               !.last_answer = normalized,
               !.last_field = current_field]

\* a faulty AskRegistration: the cursor moves on
AskRegistrationAndAdvance(st) ==
    [st EXCEPT !.awaiting_registration_confirmation = TRUE,
               !.awaiting_answer = FALSE,
               !.step = @ + 1]

AskRegistration(st) ==
    [st EXCEPT !.awaiting_registration_confirmation = TRUE,
               !.awaiting_answer = FALSE]

\* a faulty Advance: awaiting_answer is left as it was
AdvanceStillAwaiting(st) == [st EXCEPT !.step = @ + 1]

Advance(st) == [st EXCEPT !.step = @ + 1, !.awaiting_answer = FALSE]

StoreFollowup(st, normalized, previous_data) ==
    [st EXCEPT !.previous_concern_followup_checked = TRUE,
               !.previous_concern_followup_response = normalized,
               !.responses = Put(@, W("previous_concern_followup"), normalized),
               !.previous_concerns = previous_data.previous_concerns,
               !.previous_products = previous_data.previous_products]

MarkComplete(st) == [st EXCEPT !.complete = TRUE]

MarkRecommended(st, product_titles) ==
    [st EXCEPT !.recommendations_shown = TRUE,
               !.recommended_product_titles = product_titles]

AskField(st) == [st EXCEPT !.awaiting_answer = TRUE]

REGISTRATION_YES ==
    {W("okay"), W("ok"), W("yes"), W("yep"), W("yeah"), W("sure"), W("alright"), W("y")}

REGISTRATION_NO == {W("no"), W("nope"), W("nah"), W("n")}

\* the first message of a session that was not started by get_first_question
FirstMessage(st, env) ==
    Outcome(<<StartInterview(st)>>, <<"user", "question">>,
            ChatResponse("question",
                         _ordered_steps(st.responses, env.has_previous_sessions, FALSE)[1],
                         None),
            <<>>)

EndMessage == Outcome(<<>>, <<"user", "end">>, ChatResponse("end", <<>>, None), <<>>)

\* a faulty RecommendationMessages: a message whatever was found
RecommendationMessagesAlways(recommended_products) == <<"recommendation">>

\* the recommendation message is stored only when products were found
RecommendationMessages(recommended_products) ==
    IF recommended_products # <<>> THEN <<"recommendation">> ELSE <<>>

Recommended(complete, found, appended, writes) ==
    Outcome(Append(writes, MarkRecommended(complete, found.recommended_products)),
            appended \o <<"user">> \o RecommendationMessages(found.recommended_products),
            NoResponse, found.searches)

\* the answer to medical_treatment: complete, recommend, reply null
Recommend(st, env, appended, writes) ==
    Recommended(MarkComplete(st), SearchProducts(MarkComplete(st), env.catalog),
                appended, writes)

\* free conversation with the language model once no step is left; a failing
\* model call raises and nothing is stored
FreeChat(st, env) ==
    IF env.llm_ok
    THEN [Outcome(<<>>, <<"user", "assistant">>, ChatResponse("assistant", <<>>, None),
                  <<SearchCall(product_context_limit, <<>>, <<>>)>>)
             EXCEPT !.generate_reply = "returned"]
    ELSE [Outcome(<<>>, <<>>, ChatResponse("exception", <<>>, None),
                  <<SearchCall(product_context_limit, <<>>, <<>>)>>)
             EXCEPT !.generate_reply = "raised"]

(***************************************************************************)
(* The step list has no field left although the cursor was inside the list *)
(* when the turn began: complete, ask about the previous concerns or       *)
(* recommend.                                                              *)
(***************************************************************************)
Overlap(previous_concerns, current_concerns) ==
    SelectSeq(previous_concerns, LAMBDA c : InSeq(c, current_concerns))

\* which question about the previous concerns is due, if any
PreviousConcernDecision(st, env, previous_concerns, current_concerns) ==
    IF ~(env.has_previous_sessions /\ env.user_id # None /\ ~st.previous_concern_checked)
    THEN "skip"
    ELSE IF previous_concerns # <<>> /\ current_concerns # <<>>
    THEN IF Overlap(previous_concerns, current_concerns) # <<>> THEN "overlap" ELSE "skip"
    ELSE IF previous_concerns # <<>> THEN "previous"
    ELSE "checked"

AskPreviousConcern(st, decision, previous_data, current_concerns) ==
    [st EXCEPT !.previous_concern_checked = TRUE,
               !.awaiting_previous_concern_response = TRUE,
               !.previous_concerns =
                   IF decision = "overlap"
                   THEN Overlap(previous_data.previous_concerns, current_concerns)
                   ELSE previous_data.previous_concerns,
               !.previous_products =
                   IF decision = "overlap" THEN previous_data.previous_products ELSE @]

MarkPreviousChecked(st, decision) ==
    IF decision = "checked" THEN [st EXCEPT !.previous_concern_checked = TRUE] ELSE st

SetResolved(st, resolved) ==
    [st EXCEPT !.previous_concern_resolved = resolved,
               !.awaiting_previous_concern_response = FALSE]

RecommendAtEnd(st, found, appended, writes) ==
    Outcome(Append(writes, MarkRecommended(MarkComplete(st), found.recommended_products)),
            Append(appended, "recommendation"),
            ChatResponse("recommendation", <<>>, None), found.searches)

Resolved(st, env, appended, writes) ==
    RecommendAtEnd(st, SearchProducts(st, env.catalog),
                   Append(appended, "user"), Append(writes, st))

PreviousConcernAnswer(st, user_response_lower, env, appended, writes) ==
    IF ~st.awaiting_previous_concern_response
    THEN RecommendAtEnd(st, SearchProducts(st, env.catalog), appended, writes)
    ELSE IF user_response_lower \in {W("yes"), W("yep"), W("yeah"), W("y")}
    THEN Resolved(SetResolved(st, "True"), env, appended, writes)
    ELSE IF user_response_lower \in {W("no"), W("nope"), W("nah"), W("n")}
    THEN Resolved(SetResolved(st, "False"), env, appended, writes)
    ELSE Outcome(Append(writes, st), appended \o <<"user", "previous_concern_reask">>,
                 ChatResponse("previous_concern_reask", <<>>, None), <<>>)

PostCompletionDecided(complete, decision, previous_data, current_concerns, message, env, appended, writes) ==
    IF decision \in {"overlap", "previous"}
    THEN Outcome(writes \o <<complete, AskPreviousConcern(complete, decision, previous_data,
                                                          current_concerns)>>,
                 appended \o <<"user", "previous_concern_question">>,
                 ChatResponse("previous_concern_question", <<>>, None), <<>>)
    ELSE PreviousConcernAnswer(MarkPreviousChecked(complete, decision),
                               lower(strip(message)), env, appended,
                               Append(writes, complete))

PostCompletionWith(complete, previous_data, current_concerns, message, env, appended, writes) ==
    PostCompletionDecided(complete,
                          PreviousConcernDecision(complete, env,
                                                  previous_data.previous_concerns,
                                                  current_concerns),
                          previous_data, current_concerns, message, env, appended, writes)

PostCompletion(st, message, env, appended, writes) ==
    PostCompletionWith(MarkComplete(st),
                       _get_previous_session_concerns_and_products(
                           env.user_id, env.sessions, CurrentSessionId),
                       StoredConcerns(st.responses), message, env, appended, writes)

(***************************************************************************)
(* The next question: the follow-up on a repeated concern is decided here  *)
(* and the step list is computed with it.                                  *)
(***************************************************************************)
ShouldAsk(st, env, current_concerns) ==
    IF env.user_id # None /\ env.has_previous_sessions
       /\ ~st.previous_concern_followup_checked /\ current_concerns # <<>>
    THEN _check_if_major_concern_same(env.user_id, env.sessions, CurrentSessionId,
                                      current_concerns)
    ELSE st.should_ask_previous_concern_followup

Decide(st, should_ask_previous_concern_followup) ==
    [st EXCEPT !.should_ask_previous_concern_followup =
                   should_ask_previous_concern_followup]

AskAt(st, ordered_steps, message, env, appended, writes) ==
    IF st.step < Len(ordered_steps)
    THEN Outcome(Append(writes, AskField(st)), appended \o <<"user", "question">>,
                 ChatResponse("question", ordered_steps[st.step + 1], None), <<>>)
    ELSE PostCompletion(st, message, env, appended, writes)

AskDecided(st, should_ask_previous_concern_followup, message, env, appended, writes) ==
    AskAt(Decide(st, should_ask_previous_concern_followup),
          _ordered_steps(st.responses, env.has_previous_sessions,
                         should_ask_previous_concern_followup),
          message, env, appended, writes)

AskNext(st, message, env, appended, writes) ==
    AskDecided(st, ShouldAsk(st, env, StoredConcerns(st.responses)), message, env,
               appended, writes)

(***************************************************************************)
(* An answer to the field at the cursor of the step list computed without  *)
(* the follow-up.                                                          *)
(***************************************************************************)
Continue(st, current_field, message, env) ==
    IF current_field = W("medical_treatment")
    THEN Recommend(st, env, <<>>,
                   IF current_field = W("previous_concern_followup") THEN <<st>> ELSE <<>>)
    ELSE AskNext(st, message, env, <<>>,
                 IF current_field = W("previous_concern_followup") THEN <<st>> ELSE <<>>)

Advanced(st, current_field, normalized, message, env) ==
    Continue(IF current_field = W("previous_concern_followup")
             THEN StoreFollowup(st, normalized,
                                _get_previous_session_concerns_and_products(
                                    env.user_id, env.sessions, CurrentSessionId))
             ELSE st,
             current_field, message, env)

Accepted(st, current_field, normalized, message, env) ==
    IF current_field = W("for_whom") /\ normalized = W("family")
    THEN Outcome(<<AskRegistration(st)>>, <<"user", "registration">>,
                 ChatResponse("registration", <<>>, None), <<>>)
    ELSE Advanced(Advance(st), current_field, normalized, message, env)

Validated(st, current_field, checked, message, env) ==
    IF ~checked.valid
    THEN Outcome(<<Reject(st)>>, <<"user", "error">>,
                 ChatResponse("error", current_field, None), <<>>)
    ELSE Accepted(StoreAnswer(st, current_field, checked.normalized), current_field,
                  checked.normalized, message, env)

Answer(st, current_field, message, env) ==
    Validated(st, current_field,
              _validate_response(current_field, strip(message), st.responses),
              message, env)

\* a faulty InterviewAt: a message that is not an answer goes to the language
\* model
InterviewAtOrChat(st, ordered_steps, message, env, appended, writes) ==
    IF st.step < Len(ordered_steps) /\ st.awaiting_answer
    THEN Answer(st, ordered_steps[st.step + 1], message, env)
    ELSE FreeChat(st, env)

\* the interview part of the handler, after the registration reply (if any)
InterviewAt(st, ordered_steps, message, env, appended, writes) ==
    IF st.step < Len(ordered_steps)
    THEN IF st.awaiting_answer
         THEN Answer(st, ordered_steps[st.step + 1], message, env)
         ELSE AskNext(st, message, env, appended, writes)
    ELSE FreeChat(st, env)

Interview(st, message, env, appended, writes) ==
    InterviewAt(st, _ordered_steps(st.responses, env.has_previous_sessions, FALSE),
                message, env, appended, writes)

RegistrationReply(st, user_response_lower, message, env) ==
    IF user_response_lower \in REGISTRATION_YES
    THEN Outcome(<<ConfirmRegistration(st)>>, <<"user", "redirect">>,
                 ChatResponse("redirect", <<>>, LOGIN_URL), <<>>)
    ELSE IF user_response_lower \in REGISTRATION_NO
    THEN Interview(DeclineRegistration(st), message, env, <<"user">>,
                   <<DeclineRegistration(st)>>)
    ELSE Outcome(<<RejectRegistrationReply(st)>>, <<"user", "registration_reask">>,
                 ChatResponse("registration_reask", <<>>, None), <<>>)

Turn(st, has_messages, message, env) ==
    IF IsEmpty(has_messages) /\ ~st.complete /\ ~st.first_question_shown
       /\ st.step = 0 /\ ~st.awaiting_answer
    THEN FirstMessage(st, env)
    ELSE IF st.complete /\ st.recommendations_shown
    THEN EndMessage
    ELSE IF st.awaiting_registration_confirmation
    THEN RegistrationReply(st, lower(strip(message)), message, env)
    ELSE Interview(st, message, env, <<>>, <<>>)

handle_message(stored, has_messages, message, env) ==
    Turn(_get_onboarding_state(stored), has_messages, message, env)

(***************************************************************************)
(* get_first_question and get_current_question.                            *)
(***************************************************************************)
ShowFirstQuestion(st) ==
    [st EXCEPT !.step = 0, !.awaiting_answer = TRUE, !.first_question_shown = TRUE]

CurrentQuestion(st, ordered_steps) ==
    IF st.step < Len(ordered_steps)
    THEN ChatResponse("question", ordered_steps[st.step + 1], None)
    ELSE ChatResponse("complete_notice", <<>>, None)

_get_current_question_response(st, env) ==
    CurrentQuestion(st, _ordered_steps(st.responses, env.has_previous_sessions, FALSE))

FirstQuestion(st, has_messages, env, ordered_steps) ==
    IF st.complete
    THEN Outcome(<<>>, <<>>, ChatResponse("complete_notice", <<>>, None), <<>>)
    ELSE IF ~IsEmpty(has_messages)
    THEN Outcome(<<>>, <<>>, CurrentQuestion(st, ordered_steps), <<>>)
    ELSE Outcome(<<ShowFirstQuestion(st)>>, <<"question">>,
                 ChatResponse("question", ordered_steps[1], None), <<>>)

\* a faulty get_first_question: the test for a session that has messages is
\* missing
get_first_question_again(stored, has_messages, env) ==
    FirstQuestion(_get_onboarding_state(stored), FALSE, env,
                  _ordered_steps(stored.responses, env.has_previous_sessions, FALSE))

\* a faulty get_first_question: a completed interview is started over
get_first_question_anew(stored, has_messages, env) ==
    IF stored.complete
    THEN Outcome(<<ShowFirstQuestion(_get_onboarding_state(stored))>>, <<"question">>,
                 ChatResponse("question",
                              _ordered_steps(stored.responses, env.has_previous_sessions,
                                             FALSE)[1],
                              None),
                 <<>>)
    ELSE FirstQuestion(_get_onboarding_state(stored), has_messages, env,
                       _ordered_steps(stored.responses, env.has_previous_sessions, FALSE))

get_first_question(stored, has_messages, env) ==
    FirstQuestion(_get_onboarding_state(stored), has_messages, env,
                  _ordered_steps(stored.responses, env.has_previous_sessions, FALSE))

QuestionState(st, ordered_steps) ==
    IF st.complete THEN QuestionStateResponse(<<>>, FALSE, TRUE)
    ELSE IF st.step < Len(ordered_steps)
    THEN QuestionStateResponse(ordered_steps[st.step + 1], st.awaiting_answer, FALSE)
    ELSE QuestionStateResponse(<<>>, FALSE, TRUE)

get_current_question(stored, env) ==
    QuestionState(_get_onboarding_state(stored),
                  _ordered_steps(stored.responses, env.has_previous_sessions, FALSE))

\* create_session: a returning user's session starts with the name, email
\* and gender of the earlier interviews
Prepopulated(has_previous_sessions, previous_data) ==
    IF has_previous_sessions /\ previous_data # EmptyMap
    THEN Loaded(0, FALSE, FALSE, previous_data, FALSE, <<>>, <<>>, FALSE)
    ELSE DefaultState

create_session(user_id, existing_sessions) ==
    Prepopulated(user_id # None /\ HasPreviousSessions(existing_sessions),
                 _get_previous_session_data(user_id, existing_sessions))

(***************************************************************************)
(* What the user types.  The answers tried for a question are one or two   *)
(* the validator accepts (every answer the step list branches on) and one  *)
(* it rejects.                                                             *)
(***************************************************************************)
InputsFor(field) ==
    CASE field = W("name") -> {W("Al"), W("x")}
      [] field = W("for_whom") -> {W("me"), W("family"), W("x")}
      [] field = W("family_name") -> {W("Bo"), W("x")}
      [] field = W("relation") -> {W("son"), W("x")}
      [] field = W("age") -> {W("27"), W("101")}
      [] field = W("email") -> {<<"a", "@", "b", ".", "co">>, W("x")}
      [] field = W("knowledge") -> {W("curious"), W("x")}
      [] field = W("vitamin_count") -> {W("no"), W("x")}
      [] field = W("gender") -> {W("male"), W("woman"), W("x")}
      [] field = W("conceive") -> {W("yes"), W("no"), W("x")}
      [] field = W("situation") -> {W("pregnant"), W("x")}
      [] field = W("concern") ->
           {W("Sleep"), <<"stress", ",", SP, "sleep">>, W("gut"), W("x")}
      [] _parse_concern_field(field) # <<>> -> {W("x"), <<SP>>}
      [] field = W("lifestyle_status") -> {W("starting"), W("x")}
      [] Len(field) = 1 /\ field[1] \in IntakeFields -> {W("once"), W("x")}
      [] field = W("eating_habits") -> {W("vegan"), W("x")}
      [] Len(field) = 1 /\ field[1] \in {"meat_intake", "fish_intake"} ->
           {W("never"), W("x")}
      [] field = W("medical_treatment") -> {W("Yes"), W("no"), W("x")}
      [] field = W("allergies") -> {W("none"), W("x")}
      [] field = W("dietary_preferences") -> {W("paleo"), W("x")}
      [] field = W("ayurveda_view") -> {W("open"), W("x")}
      [] field = W("new_product_attitude") -> {W("first"), W("x")}
      [] OTHER -> {W("no"), W("x")}

\* the messages tried in a state: a reply to the registration offer, an
\* answer to the field at the cursor, or a greeting
InputsAt(stored, ordered_steps) ==
    IF stored.awaiting_registration_confirmation
    THEN {W("Yes"), W("no"), W("maybe")}
    ELSE IF stored.step < Len(ordered_steps) /\ stored.awaiting_answer
    THEN InputsFor(ordered_steps[stored.step + 1])
    ELSE {W("hi")}

Inputs(stored, has_previous_sessions) ==
    InputsAt(stored, _ordered_steps(stored.responses, has_previous_sessions, FALSE))

(***************************************************************************)
(* The session as a state machine.  One session of one user (or guest);    *)
(* the user's earlier sessions are fixed when the session is created.      *)
(***************************************************************************)
VARIABLES
    user_id,                \* None for a guest
    has_previous_sessions,  \* metadata.has_previous_sessions
    prior,                  \* the user's earlier sessions, oldest first
    onboarding,             \* metadata.onboarding as stored
    has_messages,           \* whether the session has stored messages
    ordered_steps,          \* the step list of the stored responses, as every
                            \* handler computes it on entry
    request,                \* the last call: operation and message
    response,               \* the ChatResponse of the last call, if it gave one
    question_state,         \* the QuestionStateResponse of the last call, if any
    appended,               \* the messages the last call appended, in order
    searches,               \* the catalogue searches of the last call
    writes,                 \* the onboarding documents the last call wrote
    returned,               \* the value a function applied on its own returned
    catalog_available,      \* whether the product repository answered during
                            \* the last call
    generate_reply,         \* the language-model call of the last call: "not
                            \* called", "returned" or "raised"
    store_available,        \* whether the session store took the writes of the
                            \* last call
    metadata,               \* the entries of the session metadata other than
                            \* onboarding: user_id, has_previous_sessions and
                            \* the number of calls counted in token_usage
    store,                  \* the stored sessions of the parallel turns:
                            \* messages and onboarding of each
    turns                   \* the turns in flight on the stored sessions

vars == <<user_id, has_previous_sessions, prior, onboarding, has_messages, ordered_steps,
          request,
          response, question_state, appended, searches, writes, returned,
          catalog_available, generate_reply, store_available, metadata, store, turns>>

Users == {None, "u1"}

Request(op, message) == [op |-> op, message |-> message]

\* most calls the token usage of a session counts
MaxUsage == 1

\* the entries of the session metadata beside onboarding; token_usage is
\* the number of calls it has counted, 0 when the entry is absent
Metadata(user, returning, token_usage) ==
    [user_id |-> user, has_previous_sessions |-> returning, token_usage |-> token_usage]

NoMetadata == Metadata(None, FALSE, 0)

\* session.metadata as the store holds it
SessionMetadata(entries, onboarding_state) ==
    [user_id |-> entries.user_id, has_previous_sessions |-> entries.has_previous_sessions,
     token_usage |-> entries.token_usage, onboarding |-> onboarding_state]

\* a faulty WithOnboarding: the metadata written holds the onboarding only
OnlyOnboarding(session_metadata, onboarding_state) ==
    SessionMetadata(NoMetadata, onboarding_state)

\* {**(session.metadata or {}), "onboarding": onboarding_state}
WithOnboarding(session_metadata, onboarding_state) ==
    [session_metadata EXCEPT !.onboarding = onboarding_state]

\* the metadata after the update_metadata calls of a turn: each call sets the
\* whole metadata of the session to the metadata the turn read on entry with
\* the onboarding of the call
update_metadata(session_metadata, written) ==
    IF written = <<>> THEN session_metadata
    ELSE WithOnboarding(session_metadata, written[Len(written)])

\* update_token_usage: {**current_metadata, "token_usage": updated_usage}
update_token_usage(current_metadata, calls) ==
    [current_metadata EXCEPT !.token_usage = @ + calls]

\* the user's sessions as the store holds them: the earlier ones and this one
Sessions ==
    prior \o <<PriorSession(CurrentSessionId, has_messages, onboarding.complete,
                            onboarding.responses, <<>>)>>

Env(catalog, llm_ok) ==
    [user_id |-> user_id, has_previous_sessions |-> has_previous_sessions,
     sessions |-> Sessions, catalog |-> catalog, llm_ok |-> llm_ok]

Init ==
    /\ user_id \in Users
    /\ prior \in (IF user_id = None THEN {<<>>} ELSE PriorChoices)
    /\ has_previous_sessions = (user_id # None /\ HasPreviousSessions(prior))
    /\ onboarding = create_session(user_id, prior)
    /\ has_messages = FALSE
    /\ ordered_steps = _ordered_steps(onboarding.responses, has_previous_sessions, FALSE)
    /\ request = Request("create_session", <<>>)
    /\ response = NoResponse
    /\ question_state = NoQuestionState
    /\ appended = <<>>
    /\ searches = <<>>
    /\ writes = <<>>
    /\ returned = None
    /\ catalog_available = TRUE
    /\ generate_reply = "not called"
    /\ store_available = TRUE
    /\ metadata = Metadata(user_id, has_previous_sessions, 0)
    /\ store = <<>>
    /\ turns = <<>>

\* the stored document after a call: the last one written, if any
Stored(out) ==
    IF out.writes = <<>> THEN onboarding ELSE out.writes[Len(out.writes)]

\* the cursor is past the step list: the message goes to the language model
InChat == onboarding.step >= Len(ordered_steps)

\* the effect of a call of handle_message or get_first_question that leaves
\* the session metadata as given
ApplyStored(op, message, out, after) ==
    /\ onboarding' = after.onboarding
    /\ metadata' = Metadata(after.user_id, after.has_previous_sessions, after.token_usage)
    /\ has_messages' = append_messages(has_messages, out.appended)
    /\ ordered_steps' = _ordered_steps(after.onboarding.responses, has_previous_sessions, FALSE)
    /\ request' = Request(op, message)
    /\ response' = out.response
    /\ appended' = out.appended
    /\ searches' = out.searches
    /\ writes' = out.writes
    /\ question_state' = NoQuestionState
    /\ generate_reply' = out.generate_reply
    /\ UNCHANGED <<user_id, has_previous_sessions, prior, returned, store, turns>>

\* the effect of a call: its update_metadata calls, then the token usage
\* update of a reply whose usage reports tokens
Apply(op, message, out, calls) ==
    ApplyStored(op, message, out,
                update_token_usage(update_metadata(SessionMetadata(metadata, onboarding),
                                                   out.writes), calls))

\* what find_relevant_products makes of the catalogue: a failing repository
\* is caught inside the function, which then returns no product
CatalogSeen(available, catalog) == IF available THEN catalog ELSE <<>>

\* what a turn comes to when the session store refuses its writes: in the
\* interview the first append_messages or update_metadata raises out of
\* handle_message before any search; in the chat with the language model the
\* append and the token usage update are guarded and the reply is returned
StoreSeen(store_ok, out) ==
    IF store_ok THEN out
    ELSE IF out.generate_reply = "not called"
    THEN Outcome(<<>>, <<>>, ChatResponse("exception", <<>>, None), <<>>)
    ELSE [out EXCEPT !.appended = <<>>, !.writes = <<>>]

\* the turn answers the last field of the step list, medical_treatment: the
\* only turn of the interview that searches the catalogue
AnswersLastField ==
    /\ onboarding.awaiting_answer
    /\ ~onboarding.awaiting_registration_confirmation
    /\ onboarding.step + 1 = Len(ordered_steps)

HandleMessageWith(store_ok) ==
    \E message \in Inputs(onboarding, has_previous_sessions) :
    \E catalog \in (IF AnswersLastField THEN CatalogChoices ELSE {<<>>}) :
    \E available \in (IF AnswersLastField THEN BOOLEAN ELSE {TRUE}) :
    \E llm_ok \in (IF InChat THEN BOOLEAN ELSE {TRUE}) :
    \E tokens \in (IF InChat /\ llm_ok /\ store_ok /\ metadata.token_usage < MaxUsage
                   THEN {0, 1} ELSE {0}) :
        /\ Apply("handle_message", message,
                 StoreSeen(store_ok,
                           handle_message(onboarding, has_messages, message,
                                          Env(CatalogSeen(available, catalog), llm_ok))),
                 tokens)
        /\ catalog_available' = available
        /\ store_available' = store_ok

HandleMessage == HandleMessageWith(TRUE)

GetFirstQuestion ==
    /\ Apply("get_first_question", <<>>,
             get_first_question(onboarding, has_messages, Env(<<>>, TRUE)), 0)
    /\ catalog_available' = TRUE
    /\ store_available' = TRUE

GetCurrentQuestion ==
    /\ question_state' = get_current_question(onboarding, Env(<<>>, TRUE))
    /\ request' = Request("get_current_question", <<>>)
    /\ appended' = <<>>
    /\ searches' = <<>>
    /\ writes' = <<>>
    /\ response' = NoResponse
    /\ UNCHANGED <<user_id, has_previous_sessions, prior, onboarding, has_messages,
                   ordered_steps, returned, metadata, store, turns>>
    /\ catalog_available' = TRUE
    /\ generate_reply' = "not called"
    /\ store_available' = TRUE

Next == HandleMessage \/ GetFirstQuestion \/ GetCurrentQuestion

Spec == Init /\ [][Next]_vars

\* the same with a session store that may refuse the writes of a turn
HandleMessageStoreDown == HandleMessageWith(FALSE)

FaultNext == Next \/ HandleMessageStoreDown

\* a guest's session
FaultInit == Init /\ user_id = None

FaultSpec == FaultInit /\ [][FaultNext]_vars

\* the session of a returning user whose metadata may hold a token usage
\* entry from the start: create stores the metadata it is given
UsageInit ==
    /\ user_id = "u1"
    /\ prior = <<SleepSession>>
    /\ has_previous_sessions = HasPreviousSessions(prior)
    /\ onboarding = create_session(user_id, prior)
    /\ has_messages = FALSE
    /\ ordered_steps = _ordered_steps(onboarding.responses, has_previous_sessions, FALSE)
    /\ request = Request("create_session", <<>>)
    /\ response = NoResponse
    /\ question_state = NoQuestionState
    /\ appended = <<>>
    /\ searches = <<>>
    /\ writes = <<>>
    /\ returned = None
    /\ catalog_available = TRUE
    /\ generate_reply = "not called"
    /\ store_available = TRUE
    /\ metadata \in {Metadata(user_id, has_previous_sessions, calls) : calls \in 0..MaxUsage}
    /\ store = <<>>
    /\ turns = <<>>

UsageNext == HandleMessage \/ GetFirstQuestion \/ GetCurrentQuestion

UsageSpec == UsageInit /\ [][UsageNext]_vars

(***************************************************************************)
(* Turns on two sessions of one user document, taken apart into the reads  *)
(* and writes they make on the session store.  The document holds an       *)
(* earlier complete session and the sessions "a" and "b", in this order.   *)
(***************************************************************************)
StoredSession(messages, onboarding_state) ==
    [messages |-> messages, onboarding |-> onboarding_state]

\* a session after a whole turn: append_messages adds the messages of the
\* turn and update_metadata leaves the onboarding written last
AfterTurn(session, out) ==
    StoredSession(session.messages \o out.appended,
                  IF out.writes = <<>> THEN session.onboarding
                  ELSE out.writes[Len(out.writes)])

TurnEnv(sessions, catalog) ==
    [user_id |-> "u1", has_previous_sessions |-> TRUE, sessions |-> sessions,
     catalog |-> catalog, llm_ok |-> TRUE]

\* handle_message on a session as get returned it
TurnOn(session, message, env) ==
    handle_message(session.onboarding, session.messages # <<>>, message, env)

\* the field a stored session waits for, <<>> if it waits for none
FieldAt(st, ordered) ==
    IF st.awaiting_answer /\ st.step < Len(ordered) THEN ordered[st.step + 1] ELSE <<>>

FieldOf(session) ==
    FieldAt(_get_onboarding_state(session.onboarding),
            _ordered_steps(session.onboarding.responses, TRUE, FALSE))

\* an answer the validator of the field accepts
AnswerTo(field, concern_message) ==
    IF field = <<>> THEN W("hi")
    ELSE IF field = W("concern") THEN concern_message
    ELSE CHOOSE m \in InputsFor(field) : _validate_response(field, m, EmptyMap).valid

NewSession == StoredSession(<<>>, create_session("u1", <<SleepSession>>))

\* the questions the overlapped turns answer: the concern question, whose
\* turn reads the user document, and the last question, whose turn searches
\* the catalogue and completes the session
Targets == {W("concern"), W("medical_treatment")}

\* the concerns named on the way to the last question
ConcernsNamed == <<"stress", ",", SP, "sleep">>

\* the messages sent to a session that waits for a field
TurnInputs(field) ==
    IF field = W("concern") THEN {W("Sleep"), ConcernsNamed, W("x")}
    ELSE {W("no"), W("x")}

ParallelIds == {"a", "b"}

Other(session_id) == IF session_id = "a" THEN "b" ELSE "a"

\* a stored session as a reader of the user document sees it; the reader's
\* own session is the current one
Seen(st, session_id, reader) ==
    PriorSession(IF session_id = reader THEN CurrentSessionId ELSE session_id,
                 st[session_id].messages # <<>>,
                 st[session_id].onboarding.complete,
                 st[session_id].onboarding.responses, <<>>)

\* find_one on the user document
UserDocument(st, reader) ==
    <<SleepSession, Seen(st, "a", reader), Seen(st, "b", reader)>>

\* a faulty SetMetadata: the positional update is not bound to the session
\* and takes the first live session of the document
SetMetadataOfFirst(st, session_id, onboarding_state) ==
    [st EXCEPT !["a"].onboarding = onboarding_state]

\* $set sessions.$.metadata of the session with this id
SetMetadata(st, session_id, onboarding_state) ==
    [st EXCEPT ![session_id].onboarding = onboarding_state]

\* $set sessions.$.messages of the session with this id
SetMessages(st, session_id, all_messages) ==
    [st EXCEPT ![session_id].messages = all_messages]

NoOutcome == Outcome(<<>>, <<>>, NoResponse, <<>>)

TurnState(pc, message, catalog, session, out, current_messages, written, overlapped, final) ==
    [pc |-> pc, message |-> message, catalog |-> catalog, session |-> session, out |-> out,
     current_messages |-> current_messages, written |-> written, overlapped |-> overlapped,
     final |-> final]

\* no turn under way on the session
Idle(message, catalog) ==
    TurnState("idle", message, catalog, NewSession, NoOutcome, <<>>, 0, FALSE, FALSE)

ParallelInit ==
    /\ user_id = "u1"
    /\ prior = <<SleepSession>>
    /\ has_previous_sessions = TRUE
    /\ onboarding = DefaultState
    /\ has_messages = FALSE
    /\ ordered_steps = <<>>
    /\ request = Request("new", "a")
    /\ response = NoResponse
    /\ question_state = NoQuestionState
    /\ appended = <<>>
    /\ searches = <<>>
    /\ writes = <<>>
    /\ returned = None
    /\ catalog_available = TRUE
    /\ generate_reply = "not called"
    /\ store_available = TRUE
    /\ metadata = Metadata("u1", TRUE, 0)
    /\ store = [s \in ParallelIds |-> NewSession]
    /\ \E target \in [ParallelIds -> Targets] :
           turns = [initial |-> store, target |-> target,
                    a |-> Idle(<<>>, <<>>), b |-> Idle(<<>>, <<>>)]

Step(session_id, turn) ==
    /\ turns' = [turns EXCEPT ![session_id] = turn]
    /\ request' = Request(turn.pc, session_id)

Frame ==
    UNCHANGED <<user_id, has_previous_sessions, prior, onboarding, has_messages,
                ordered_steps, response, question_state, appended, searches, writes,
                returned, catalog_available, generate_reply, store_available, metadata>>

\* the turn has returned: the session waits for its next message, or has
\* had its last one
Ended(turn) ==
    IF turn.final THEN [turn EXCEPT !.pc = "done"] ELSE Idle(turn.message, turn.catalog)

\* a message is sent to the session; the store is noted at the start of
\* turns that do not begin during another turn
Sent(s, message, catalog, final) ==
    /\ turns' = [turns EXCEPT
                    ![s] = TurnState("start", message, catalog, turns[s].session,
                                     NoOutcome, <<>>, 0, FALSE, final),
                    !.initial = IF turns[Other(s)].final THEN @ ELSE store]
    /\ request' = Request("start", s)

\* the sessions are led to their questions by turns taken one at a time;
\* the turns that answer those questions overlap
SendAt(s, field, other_field) ==
    IF field # turns.target[s]
    THEN /\ turns[Other(s)].pc = "idle"
         /\ Sent(s, AnswerTo(field, ConcernsNamed), <<>>, FALSE)
    ELSE /\ \/ turns[Other(s)].final
            \/ turns[Other(s)].pc = "idle" /\ other_field = turns.target[Other(s)]
         /\ \E message \in TurnInputs(field), catalog \in {<<>>, <<"P1">>} :
                Sent(s, message, catalog, TRUE)

\* the client posts a message to a session
Send ==
    \E s \in ParallelIds :
        /\ turns[s].pc = "idle"
        /\ SendAt(s, FieldOf(store[s]), FieldOf(store[Other(s)]))
        /\ UNCHANGED store
        /\ Frame

\* session_repo.get: the turn reads its session
GetSession ==
    \E s \in ParallelIds :
        /\ turns[s].pc = "start"
        /\ Step(s, [turns[s] EXCEPT !.pc = "got", !.session = store[s]])
        /\ UNCHANGED store
        /\ Frame

\* the turn goes on with the messages and writes it computed
Computed(s, out) ==
    Step(s, IF out.appended = <<>> /\ out.writes = <<>> THEN Ended(turns[s])
            ELSE [turns[s] EXCEPT
                     !.out = out,
                     !.pc = IF out.appended # <<>> THEN "read" ELSE "appended",
                     !.overlapped = turns[Other(s)].pc \notin {"idle", "start", "done"}])

\* the turn reads the user document and computes its messages and writes
ReadUser ==
    \E s \in ParallelIds :
        /\ turns[s].pc = "got"
        /\ Computed(s, TurnOn(turns[s].session, turns[s].message,
                              TurnEnv(UserDocument(store, s), turns[s].catalog)))
        /\ UNCHANGED store
        /\ Frame

\* append_messages, first half: find_one reads the messages of the session
AppendFind ==
    \E s \in ParallelIds :
        /\ turns[s].pc = "read"
        /\ Step(s, [turns[s] EXCEPT !.pc = "found",
                                    !.current_messages = store[s].messages])
        /\ UNCHANGED store
        /\ Frame

\* append_messages, second half: the messages read and the new ones are set
AppendSet ==
    \E s \in ParallelIds :
        /\ turns[s].pc = "found"
        /\ store' = SetMessages(store, s, turns[s].current_messages \o turns[s].out.appended)
        /\ Step(s, IF turns[s].out.writes # <<>> THEN [turns[s] EXCEPT !.pc = "appended"]
                   ELSE Ended(turns[s]))
        /\ Frame

\* update_metadata: one call of the turn
WriteMetadata ==
    \E s \in ParallelIds :
        /\ turns[s].pc = "appended"
        /\ store' = SetMetadata(store, s, turns[s].out.writes[turns[s].written + 1])
        /\ Step(s, IF turns[s].written + 1 = Len(turns[s].out.writes)
                   THEN Ended(turns[s])
                   ELSE [turns[s] EXCEPT !.written = @ + 1])
        /\ Frame

ParallelNext == Send \/ GetSession \/ ReadUser \/ AppendFind \/ AppendSet \/ WriteMetadata

ParallelSpec == ParallelInit /\ [][ParallelNext]_vars

(***************************************************************************)
(* The step list as a function of the stored answers: the responses are    *)
(* drawn from the values the handlers can store in the keys the step list  *)
(* reads, and the list is computed from them.                              *)
(***************************************************************************)
\* the concerns _save_response can store: the canonical concerns that
\* _normalize_concerns gives back
StorableConcerns == {c \in Concerns : _normalize_concerns(<<c>>) = <<c>>}

\* the lists of distinct storable concerns of a given length
RECURSIVE ConcernLists(_)
ConcernLists(n) ==
    IF n = 0 THEN {<<>>}
    ELSE {Append(l, c) : l \in ConcernLists(n - 1), c \in StorableConcerns}

StoredConcernLists ==
    {l \in UNION {ConcernLists(n) : n \in 0..MaxConcerns} :
        \A i, j \in 1..Len(l) : i # j => l[i] # l[j]}

\* a response map from the chosen values; <<>> leaves the key out
Chosen(key, value) == IF value = <<>> THEN EmptyMap ELSE W(key) :> value

ResponseChoices(concern_lists) ==
    {Chosen("for_whom", for_whom) @@ Chosen("gender", gender)
        @@ Chosen("conceive", conceive) @@ Chosen("eating_habits", eating_habits)
        @@ Chosen("drinks_alcohol", drinks_alcohol)
        @@ (IF concern = <<>> THEN EmptyMap ELSE W("concern") :> concern) :
        for_whom \in {<<>>, W("self"), W("family"), W("me")},
        gender \in {<<>>, W("male"), W("female"), Phrase(<<"gender", "neutral">>)},
        conceive \in {<<>>, W("yes"), W("no")},
        eating_habits \in {<<>>, W("vegan"), W("vegetarian"), W("flexitarian")},
        drinks_alcohol \in {<<>>, W("yes")},
        concern \in concern_lists}

StepsInit ==
    /\ user_id = "u1"
    /\ prior \in {<<>>, <<SleepSession>>}
    /\ has_previous_sessions = HasPreviousSessions(prior)
    /\ onboarding \in {Loaded(0, FALSE, FALSE, responses, FALSE, <<>>, <<>>, FALSE) :
                          responses \in ResponseChoices(StoredConcernLists)}
    /\ has_messages = FALSE
    /\ ordered_steps = <<>>
    /\ request = Request("create_session", <<>>)
    /\ response = NoResponse
    /\ question_state = NoQuestionState
    /\ appended = <<>>
    /\ searches = <<>>
    /\ writes = <<>>
    /\ returned = None
    /\ catalog_available = TRUE
    /\ generate_reply = "not called"
    /\ store_available = TRUE
    /\ metadata = NoMetadata
    /\ store = <<>>
    /\ turns = <<>>

\* _ordered_steps applied to the responses, with and without the follow-up
ComputeSteps ==
    \E should_ask_previous_concern_followup \in BOOLEAN :
        /\ request.op = "create_session"
        /\ ordered_steps' = _ordered_steps(onboarding.responses, has_previous_sessions,
                                           should_ask_previous_concern_followup)
        /\ onboarding' = Decide(onboarding, should_ask_previous_concern_followup)
        /\ request' = Request("_ordered_steps", <<>>)
        /\ UNCHANGED <<user_id, has_previous_sessions, prior, has_messages, response,
                       question_state, appended, searches, writes, returned,
                       catalog_available, generate_reply, store_available, metadata, store, turns>>

StepsNext == ComputeSteps

StepsSpec == StepsInit /\ [][StepsNext]_vars

(***************************************************************************)
(* Repeated calls of _ordered_steps on the same responses.                 *)
(***************************************************************************)
\* the responses of StepsInit with at most one concern
RepeatChoices(choices) ==
    {responses \in choices : Len(StoredConcerns(responses)) <= 1}

RepeatInit ==
    /\ user_id = "u1"
    /\ prior \in {<<>>, <<SleepSession>>}
    /\ has_previous_sessions = HasPreviousSessions(prior)
    /\ onboarding \in {Loaded(0, FALSE, FALSE, responses, FALSE, <<>>, <<>>, FALSE) :
                          responses \in RepeatChoices(ResponseChoices(StoredConcernLists))}
    /\ has_messages = FALSE
    /\ ordered_steps = <<>>
    /\ request = Request("create_session", <<>>)
    /\ response = NoResponse
    /\ question_state = NoQuestionState
    /\ appended = <<>>
    /\ searches = <<>>
    /\ writes = <<>>
    /\ returned = None
    /\ catalog_available = TRUE
    /\ generate_reply = "not called"
    /\ store_available = TRUE
    /\ metadata = NoMetadata
    /\ store = <<>>
    /\ turns = <<>>

\* the flag of a call, and "none" before the first call
FlagOf(req) == IF req.op = "_ordered_steps" THEN req.message.flag ELSE "none"

StepsArgs(flag, previous) == [flag |-> flag, previous |-> previous]

\* a faulty StepsOfCall: the list is kept between the calls
StepsOfCallKept(responses, returning, should_ask_previous_concern_followup) ==
    ordered_steps \o _ordered_steps(responses, returning, should_ask_previous_concern_followup)

\* the list a call builds: `steps = []` is local to the call
StepsOfCall(responses, returning, should_ask_previous_concern_followup) ==
    _ordered_steps(responses, returning, should_ask_previous_concern_followup)

\* one more call of _ordered_steps; the state keeps the list of the call
\* before (returned) and the flags of both calls (request)
CallOrderedSteps ==
    \E should_ask_previous_concern_followup \in BOOLEAN :
        /\ ordered_steps' = StepsOfCall(onboarding.responses, has_previous_sessions,
                                        should_ask_previous_concern_followup)
        /\ returned' = IF request.op = "_ordered_steps" THEN ordered_steps ELSE None
        /\ request' = Request("_ordered_steps",
                              StepsArgs(IF should_ask_previous_concern_followup
                                        THEN "true" ELSE "false", FlagOf(request)))
        /\ UNCHANGED <<user_id, has_previous_sessions, prior, onboarding, has_messages,
                       response, question_state, appended, searches, writes,
                       catalog_available, generate_reply, store_available, metadata, store, turns>>

RepeatNext == CallOrderedSteps

RepeatSpec == RepeatInit /\ [][RepeatNext]_vars

(***************************************************************************)
(* Session creation as a function of the user and of the sessions the user *)
(* document holds when the session is created.                             *)
(***************************************************************************)
MaxHistory == 3

\* the sessions a user document may hold: complete and abandoned interviews
\* that recorded some of name, email, gender and age
FullSession ==
    PriorSession("s1", TRUE, TRUE,
                 W("name") :> W("Al") @@ W("email") :> <<"a", "@", "b", ".", "co">>
                 @@ W("gender") :> W("female") @@ W("age") :> W("27")
                 @@ W("concern") :> <<"sleep">>,
                 <<"P1">>)

NamedSession ==
    PriorSession("s2", TRUE, TRUE, W("name") :> W("Bo") @@ W("age") :> W("30"), <<>>)

MaleSession ==
    PriorSession("s3", TRUE, TRUE, W("name") :> W("Cy") @@ W("gender") :> W("male"), <<>>)

AbandonedSession ==
    PriorSession("s4", TRUE, FALSE,
                 W("name") :> W("Di") @@ W("email") :> <<"d", "@", "b", ".", "co">>
                 @@ W("gender") :> W("female"),
                 <<>>)

UntouchedSession == PriorSession("s5", FALSE, FALSE, EmptyMap, <<>>)

BlankCompleteSession == PriorSession("s6", FALSE, TRUE, EmptyMap, <<>>)

SessionShapes ==
    {FullSession, NamedSession, MaleSession, AbandonedSession, UntouchedSession,
     BlankCompleteSession}

RECURSIVE Histories(_)
Histories(n) ==
    IF n = 0 THEN {<<>>}
    ELSE Histories(n - 1)
         \cup {Append(h, s) : h \in {x \in Histories(n - 1) : Len(x) = n - 1},
                              s \in SessionShapes}

CreateInit ==
    /\ user_id \in Users
    /\ prior \in (IF user_id = None THEN {<<>>} ELSE Histories(MaxHistory))
    /\ has_previous_sessions = FALSE
    /\ onboarding = DefaultState
    /\ has_messages = FALSE
    /\ ordered_steps = <<>>
    /\ request = Request("new", <<>>)
    /\ response = NoResponse
    /\ question_state = NoQuestionState
    /\ appended = <<>>
    /\ searches = <<>>
    /\ writes = <<>>
    /\ returned = None
    /\ catalog_available = TRUE
    /\ generate_reply = "not called"
    /\ store_available = TRUE
    /\ metadata = NoMetadata
    /\ store = <<>>
    /\ turns = <<>>

\* create_session for the user, the repository setting has_previous_sessions
CreateSession ==
    /\ request.op = "new"
    /\ has_previous_sessions' = (user_id # None /\ HasPreviousSessions(prior))
    /\ onboarding' = create_session(user_id, prior)
    /\ ordered_steps' = _ordered_steps(create_session(user_id, prior).responses,
                                       user_id # None /\ HasPreviousSessions(prior), FALSE)
    /\ request' = Request("create_session", <<>>)
    /\ UNCHANGED <<user_id, prior, has_messages, response, question_state, appended,
                   searches, writes, returned, catalog_available, generate_reply,
                   store_available, metadata, store, turns>>

CreateNext == CreateSession

CreateSpec == CreateInit /\ [][CreateNext]_vars

(***************************************************************************)
(* Saving answers as a function of the field, the answer and the responses *)
(* stored so far.                                                          *)
(***************************************************************************)
MaxSaves == 3

\* concerns of which two share the question id "improve"
SavedConcerns == {"stomach_intestines", "brain", "sleep"}

SavedAnswers == {W("yes"), W("no")}

\* the number of follow-up answers the responses hold
DetailCount(responses) ==
    IF W("concern_details") \notin DOMAIN responses THEN 0
    ELSE LET details == responses[W("concern_details")]
         IN  Cardinality(UNION {{<<c, q>> : q \in DOMAIN details[c]} : c \in DOMAIN details})

SaveInit ==
    /\ user_id = None
    /\ prior = <<>>
    /\ has_previous_sessions = FALSE
    /\ onboarding = DefaultState
    /\ has_messages = FALSE
    /\ ordered_steps = <<>>
    /\ request = Request("new", <<>>)
    /\ response = NoResponse
    /\ question_state = NoQuestionState
    /\ appended = <<>>
    /\ searches = <<>>
    /\ writes = <<>>
    /\ returned = None
    /\ catalog_available = TRUE
    /\ generate_reply = "not called"
    /\ store_available = TRUE
    /\ metadata = NoMetadata
    /\ store = <<>>
    /\ turns = <<>>

SaveArgs(field, normalized) == [field |-> field, normalized |-> normalized]

\* _save_response applied to the stored responses
Save(field, normalized) ==
    /\ onboarding' = [onboarding EXCEPT
                         !.responses = _save_response(field, normalized, @)]
    /\ request' = Request("_save_response", SaveArgs(field, normalized))
    /\ UNCHANGED <<user_id, has_previous_sessions, prior, has_messages, ordered_steps,
                   response, question_state, appended, searches, writes, returned,
                   catalog_available, generate_reply, store_available, metadata, store, turns>>

\* the answer to a follow-up question of a concern
SaveFollowUp ==
    \E concern \in SavedConcerns :
    \E i \in 1..Len(QuestionsOf(concern)) :
    \E normalized \in SavedAnswers :
        /\ DetailCount(onboarding.responses) < MaxSaves
        /\ Save(_concern_field_key(concern, QuestionsOf(concern)[i]), normalized)

\* the answer to the concern question or to a plain question
SaveField ==
    \E field \in {W("concern"), W("improve")} :
        Save(field, <<"sleep">>)

SaveNext == SaveFollowUp \/ SaveField

SaveSpec == SaveInit /\ [][SaveNext]_vars

(***************************************************************************)
(* The options offered with a question, and the validator applied to an    *)
(* offered value.                                                          *)
(***************************************************************************)
yes_no_fields == {"protein", "conceive", "children", "drinks_alcohol", "alcohol_daily",
                  "alcohol_weekly", "coffee_intake", "smokes", "sunlight_exposure",
                  "iron_advised", "medical_treatment", "previous_concern_followup"}

YES_NO == <<W("yes"), W("no")>>

\* _get_question_options: the option values of a field in the order they are
\* offered; the empty tuple stands for None (a free-text question)
_get_question_options(field) ==
    CASE Len(field) = 1 /\ field[1] \in yes_no_fields -> YES_NO
      [] field \in {_concern_field_key("sleep", "fall_asleep"),
                     _concern_field_key("skin", "dry"),
                     _concern_field_key("resistance", "low"),
                     _concern_field_key("resistance", "intense_training"),
                     _concern_field_key("resistance", "medical_care"),
                     _concern_field_key("weight", "binge"),
                     _concern_field_key("weight", "sleep_hours"),
                     _concern_field_key("hormones", "physical_changes"),
                     _concern_field_key("brain", "mood")} -> YES_NO
      [] field = W("for_whom") ->
              << <<"me">>,
                 <<"family">> >>
      [] field = W("gender") ->
              << <<"male">>,
                 <<"woman">>,
                 <<"gender", " ", "neutral">> >>
      [] field = W("knowledge") ->
              << <<"well", " ", "informed">>,
                 <<"curious">>,
                 <<"skeptical">> >>
      [] field = W("vitamin_count") ->
              << <<"no">>,
                 <<"1", " ", "to", " ", "3">>,
                 <<"4", "+">> >>
      [] field = W("situation") ->
              << <<"to", " ", "get", " ", "pregnant", " ", "in", " ", "the", " ", "next", " ", "2", " ", "years">>,
                 <<"i", " ", "am", " ", "pregnant", " ", "now">>,
                 <<"breastfeeding">> >>
      [] field = W("concern") ->
              << <<"sleep">>,
                 <<"stress">>,
                 <<"energy">>,
                 <<"stomach_intestines">>,
                 <<"skin">>,
                 <<"resistance">>,
                 <<"weight">>,
                 <<"hormones">>,
                 <<"libido">>,
                 <<"brain">>,
                 <<"hair_nails">>,
                 <<"fitness">> >>
      [] field = W("lifestyle_status") ->
              << <<"been", " ", "doing", " ", "well", " ", "for", " ", "a", " ", "long", " ", "time">>,
                 <<"nice", " ", "on", " ", "the", " ", "way">>,
                 <<"ready", " ", "to", " ", "start">> >>
      [] Len(field) = 1 /\ field[1] \in IntakeFields ->
              << <<"hardly">>,
                 <<"one", " ", "time">>,
                 <<"twice", " ", "or", " ", "more">> >>
      [] field = W("eating_habits") ->
              << <<"no", " ", "preference">>,
                 <<"flexitarian">>,
                 <<"vegetarian">>,
                 <<"vegan">> >>
      [] Len(field) = 1 /\ field[1] \in {"meat_intake", "fish_intake"} ->
              << <<"never">>,
                 <<"once", " ", "or", " ", "twice">>,
                 <<"three", " ", "times", " ", "or", " ", "more">> >>
      [] field = W("allergies") ->
              << <<"no">>,
                 <<"milk">>,
                 <<"egg">>,
                 <<"fish">>,
                 <<"shellfish", " ", "and", " ", "crustaceans">>,
                 <<"peanut">>,
                 <<"nuts">>,
                 <<"soy">>,
                 <<"gluten">>,
                 <<"wheat">>,
                 <<"pollen">> >>
      [] field = W("dietary_preferences") ->
              << <<"no", " ", "preference">>,
                 <<"lactose", "-", "free">>,
                 <<"gluten", " ", "free">>,
                 <<"paleo">> >>
      [] field = W("ayurveda_view") ->
              << <<"i", " ", "am", " ", "convinced">>,
                 <<"we", " ", "can", " ", "learn", " ", "a", " ", "lot", " ", "from", " ", "ancient", " ", "medicine">>,
                 <<"i", " ", "am", " ", "open", " ", "to", " ", "it">>,
                 <<"more", " ", "information", " ", "needed", " ", "for", " ", "an", " ", "opinion">>,
                 <<"i", " ", "am", " ", "skeptical">>,
                 <<"alternative", " ", "medicine", " ", "is", " ", "nonsense">> >>
      [] field = W("new_product_attitude") ->
              << <<"to", " ", "be", " ", "the", " ", "first">>,
                 <<"you", " ", "are", " ", "at", " ", "the", " ", "forefront", " ", "of", " ", "new", " ", "products">>,
                 <<"learn", " ", "more">>,
                 <<"you", " ", "are", " ", "cautiously", " ", "optimistic">>,
                 <<"waiting", " ", "for", " ", "now">>,
                 <<"scientific", " ", "research", " ", "takes", " ", "time">> >>
      [] field = _concern_field_key("sleep", "refreshed") ->
              << <<"refreshed">>,
                 <<"still", " ", "tired">> >>
      [] field = _concern_field_key("sleep", "hours") ->
              << <<"7", "+", " ", "hours">>,
                 <<"less", " ", "than", " ", "7">>,
                 <<"less", " ", "than", " ", "5">> >>
      [] field = _concern_field_key("stress", "busy_level") ->
              << <<"few", " ", "things">>,
                 <<"normal">>,
                 <<"a", " ", "lot">> >>
      [] field = _concern_field_key("stress", "after_day") ->
              << <<"energized">>,
                 <<"completely", " ", "drained">> >>
      [] field = _concern_field_key("stress", "signals") ->
              << <<"faster", " ", "breathing">>,
                 <<"tense", " ", "muscles">>,
                 <<"trouble", " ", "sleeping">>,
                 <<"sensitive", " ", "stomach">>,
                 <<"head", " ", "pressure">>,
                 <<"fast", " ", "heartbeat">>,
                 <<"none">> >>
      [] field = _concern_field_key("energy", "day_load") ->
              << <<"very", " ", "full">>,
                 <<"moderate">>,
                 <<"not", " ", "very", " ", "full">> >>
      [] field = _concern_field_key("energy", "end_day") ->
              << <<"still", " ", "there">>,
                 <<"totally", " ", "gone">> >>
      [] field = _concern_field_key("energy", "body_signals") ->
              << <<"tired">>,
                 <<"sleepy">>,
                 <<"low", " ", "energy">>,
                 <<"none">> >>
      [] field = _concern_field_key("stomach_intestines", "bowel") ->
              << <<"less", " ", "than", " ", "once">>,
                 <<"about", " ", "once">>,
                 <<"more", " ", "than", " ", "once">>,
                 <<"irregular">> >>
      [] field = _concern_field_key("stomach_intestines", "improve") ->
              << <<"gas", " ", "&", " ", "bloating">>,
                 <<"that", " ", "'", "balloon", "'", " ", "feeling">>,
                 <<"letting", " ", "go", " ", "easily">>,
                 <<"overall", " ", "digestion">>,
                 <<"none">> >>
      [] field = _concern_field_key("skin", "most_days") ->
              << <<"pulling">>,
                 <<"shiny">>,
                 <<"sensitive">>,
                 <<"dull">>,
                 <<"pretty", " ", "good">> >>
      [] field = _concern_field_key("skin", "notices") ->
              << <<"pimples">>,
                 <<"discoloration">>,
                 <<"lines">>,
                 <<"less", " ", "elasticity">>,
                 <<"aging">>,
                 <<"none">> >>
      [] field = _concern_field_key("weight", "challenge") ->
              << <<"movement">>,
                 <<"exercise">>,
                 <<"nutrition">>,
                 <<"discipline">>,
                 <<"knowledge">>,
                 <<"none">> >>
      [] field = _concern_field_key("hormones", "cycle") ->
              << <<"regular">>,
                 <<"irregular">>,
                 <<"very", " ", "irregular">> >>
      [] field = _concern_field_key("hormones", "emotions") ->
              << <<"moody">>,
                 <<"irritable">>,
                 <<"sad">>,
                 <<"anxious">>,
                 <<"fine">> >>
      [] field = _concern_field_key("libido", "level") ->
              << <<"low">>,
                 <<"average">>,
                 <<"high">> >>
      [] field = _concern_field_key("libido", "sleep_quality") ->
              << <<"excellent">>,
                 <<"good">>,
                 <<"fair">>,
                 <<"poor">> >>
      [] field = _concern_field_key("libido", "pressure") ->
              << <<"a", " ", "lot">>,
                 <<"some">>,
                 <<"little">>,
                 <<"none">> >>
      [] field = _concern_field_key("brain", "symptoms") ->
              << <<"difficulty", " ", "focusing">>,
                 <<"forgetfulness">>,
                 <<"trouble", " ", "finding", " ", "words">>,
                 <<"none">> >>
      [] field = _concern_field_key("brain", "improve") ->
              << <<"focus">>,
                 <<"memory">>,
                 <<"mental", " ", "fitness">>,
                 <<"staying", " ", "sharp">> >>
      [] field = _concern_field_key("hair_nails", "hair") ->
              << <<"dry">>,
                 <<"thin">>,
                 <<"split", " ", "ends">>,
                 <<"won", "'", "t", " ", "grow", " ", "long">>,
                 <<"could", " ", "be", " ", "fuller">>,
                 <<"none">> >>
      [] field = _concern_field_key("hair_nails", "nails") ->
              << <<"strength">>,
                 <<"length">>,
                 <<"condition">>,
                 <<"none">> >>
      [] field = _concern_field_key("fitness", "frequency") ->
              << <<"daily">>,
                 <<"3", "-", "5", " ", "times", " ", "a", " ", "week">>,
                 <<"1", "-", "2", " ", "times", " ", "a", " ", "week">>,
                 <<"rarely">>,
                 <<"never">> >>
      [] field = _concern_field_key("fitness", "training") ->
              << <<"strength">>,
                 <<"cardio">>,
                 <<"hiit">>,
                 <<"flexibility">>,
                 <<"none">> >>
      [] field = _concern_field_key("fitness", "priority") ->
              << <<"performance">>,
                 <<"sweating">>,
                 <<"muscle">>,
                 <<"health">> >>
      [] OTHER -> <<>>

\* every field the interview can ask
AllFields ==
    {W(f) : f \in yes_no_fields \cup IntakeFields \cup
                  {"name", "for_whom", "family_name", "relation", "age", "knowledge",
                   "vitamin_count", "gender", "situation", "email", "concern",
                   "lifestyle_status", "eating_habits", "meat_intake", "fish_intake",
                   "allergies", "dietary_preferences", "ayurveda_view",
                   "new_product_attitude"}}
    \cup UNION {{_concern_field_key(c, q) : q \in {CONCERN_QUESTIONS[c][i] : i \in 1..3}} :
                   c \in Concerns}

OptionsInit ==
    /\ user_id = None
    /\ prior = <<>>
    /\ has_previous_sessions = FALSE
    /\ onboarding = DefaultState
    /\ has_messages = FALSE
    /\ ordered_steps = <<>>
    /\ request = Request("new", <<>>)
    /\ response = NoResponse
    /\ question_state = NoQuestionState
    /\ appended = <<>>
    /\ searches = <<>>
    /\ writes = <<>>
    /\ returned = None
    /\ catalog_available = TRUE
    /\ generate_reply = "not called"
    /\ store_available = TRUE
    /\ metadata = NoMetadata
    /\ store = <<>>
    /\ turns = <<>>

OptionArgs(field, raw_value, name) == [field |-> field, raw_value |-> raw_value, name |-> name]

\* an option offered for a field is sent back as the message
SendOption ==
    \E field \in AllFields :
    \E i \in 1..Len(_get_question_options(field)) :
    \E name \in {<<>>, W("Al")} :
        /\ request' = Request("_validate_response",
                              OptionArgs(field, _get_question_options(field)[i], name))
        /\ returned' = _validate_response(field, _get_question_options(field)[i],
                                          IF name = <<>> THEN EmptyMap
                                          ELSE Put(EmptyMap, W("name"), name))
        /\ UNCHANGED <<user_id, has_previous_sessions, prior, onboarding, has_messages,
                       ordered_steps, response, question_state, appended, searches, writes,
                       catalog_available, generate_reply, store_available, metadata, store, turns>>

OptionsNext == SendOption

OptionsSpec == OptionsInit /\ [][OptionsNext]_vars

(***************************************************************************)
(* Concern parsing as a function of its input: the raw value is a text     *)
(* made of concern names and separators, a list of concern keys, or None.  *)
(***************************************************************************)
\* the ways a text names a concern (or none: "x")
ConcernNames ==
    { <<"Stomach", SP, "and", SP, "Intestines">>, <<"Hair", SP, "&", SP, "Nails">>,
      W("Sleep"), W("Gut"), <<"immune", SP, "system">>, <<"hair", SP, "nails">>,
      W("stress"), W("stomach_intestines"), W("hair_nails"), W("x") }

Separators ==
    { <<",", SP>>, <<SP, "and", SP>>, <<"/">>, <<SP, "/", SP>>, <<";">>, <<"|">>, <<SP>> }

\* the texts of n names
RECURSIVE Texts(_)
Texts(n) ==
    IF n = 1 THEN ConcernNames
    ELSE {t \o sep \o name : t \in Texts(n - 1), sep \in Separators, name \in ConcernNames}

\* the lists of n concern keys, repetitions included
RECURSIVE KeyLists(_)
KeyLists(n) ==
    IF n = 0 THEN {<<>>}
    ELSE {Append(l, c) : l \in KeyLists(n - 1), c \in Concerns}

RawValues ==
    {NoneValue, Str(<<>>)}
    \cup {Str(t) : t \in UNION {Texts(n) : n \in 1..MaxConcerns}}
    \cup {List(l) : l \in UNION {KeyLists(n) : n \in 0..MaxConcerns}}

ParseInit ==
    /\ user_id = None
    /\ prior = <<>>
    /\ has_previous_sessions = FALSE
    /\ onboarding = DefaultState
    /\ has_messages = FALSE
    /\ ordered_steps = <<>>
    /\ request \in {Request("create_session", raw) : raw \in RawValues}
    /\ response = NoResponse
    /\ question_state = NoQuestionState
    /\ appended = <<>>
    /\ searches = <<>>
    /\ writes = <<>>
    /\ returned = None
    /\ catalog_available = TRUE
    /\ generate_reply = "not called"
    /\ store_available = TRUE
    /\ metadata = NoMetadata
    /\ store = <<>>
    /\ turns = <<>>

\* _normalize_concerns applied to the raw value
NormalizeConcerns ==
    /\ request.op = "create_session"
    /\ returned' = normalize_concerns(request.message)
    /\ request' = Request("_normalize_concerns", request.message)
    /\ UNCHANGED <<user_id, has_previous_sessions, prior, onboarding, has_messages,
                   ordered_steps, response, question_state, appended, searches, writes,
                   catalog_available, generate_reply, store_available, metadata, store, turns>>

ParseNext == NormalizeConcerns

ParseSpec == ParseInit /\ [][ParseNext]_vars

(***************************************************************************)
(* Product service (app/services/product_service.py): the search           *)
(* find_relevant_products on the documents the catalogue returned, and the *)
(* safety warnings of a product.  A score is counted in halves: 1 stands   *)
(* for 0.5, 2 for 1.0.  A product document is a record; its status is      *)
(* "true" or "false" for the booleans and the text itself otherwise.       *)
(***************************************************************************)
\* CONCERN_TO_KEYWORDS (lines 13-26)
CONCERN_TO_KEYWORDS ==
  <<<<<<"sleep">>, <<<<"sleep">>, <<"rest">>, <<"relaxation">>, <<"tiredness">>,
              <<"fatigue">>, <<"calm">>>>>>,
     <<<<"stress">>, <<<<"stress">>, <<"anxiety">>, <<"calm">>, <<"relaxation">>,
              <<"psychological">>>>>>,
     <<<<"energy">>, <<<<"energy">>, <<"fatigue">>, <<"tiredness">>, <<"vitality">>,
              <<"metabolism">>>>>>,
     <<<<"stomach_intestines">>, <<<<"digestion">>, <<"gut">>, <<"stomach">>, <<"intestines">>,
              <<"bowel">>, <<"digestive">>>>>>,
     <<<<"skin">>, <<<<"skin">>, <<"collagen">>, <<"complexion">>, <<"elasticity">>,
              <<"aging">>>>>>,
     <<<<"resistance">>, <<<<"immune">>, <<"immunity">>, <<"resistance">>,
              <<"immune", " ", "system">>>>>>,
     <<<<"weight">>, <<<<"weight">>, <<"metabolism">>,
              <<"energy", " ", "metabolism">>>>>>,
     <<<<"libido">>, <<<<"libido">>, <<"sexual">>, <<"hormone">>, <<"hormonal">>>>>>,
     <<<<"brain">>, <<<<"brain">>, <<"memory">>, <<"concentration">>,
              <<"cognitive">>, <<"mental">>, <<"focus">>, <<"learning">>>>>>,
     <<<<"hair_nails">>, <<<<"hair">>, <<"nails">>, <<"hair", " ", "growth">>,
              <<"nail", " ", "health">>>>>>,
     <<<<"fitness">>, <<<<"fitness">>, <<"muscle">>, <<"performance">>, <<"recovery">>,
              <<"exercise">>, <<"strength">>>>>>,
     <<<<"hormones">>, <<<<"hormone">>, <<"hormonal">>, <<"menstrual">>, <<"cycle">>,
              <<"libido">>>>>> >>

\* CONCERN_TO_HEALTH_GOALS ; a single label is a list of one (lines 29-42)
CONCERN_TO_HEALTH_GOALS ==
  <<<<<<"sleep">>, <<<<"Sleep">>>>>>,
     <<<<"stress">>, <<<<"Stress", " ", "Management">>>>>>,
     <<<<"energy">>, <<<<"Energy", " ", "Support">>>>>>,
     <<<<"stomach_intestines">>, <<<<"Digestive", " ", "Health">>, <<"Gut", " ", "Health">>>>>>,
     <<<<"skin">>, <<<<"Skin", " ", "Health">>>>>>,
     <<<<"resistance">>, <<<<"Immune", " ", "Support">>>>>>,
     <<<<"weight">>, <<<<"Weight", " ", "Management">>>>>>,
     <<<<"libido">>, <<<<"Libido">>>>>>,
     <<<<"brain">>, <<<<"Brain", " ", "Health">>>>>>,
     <<<<"hair_nails">>, <<<<"Hair", " ", "Health">>, <<"Nail", " ", "Health">>>>>>,
     <<<<"fitness">>, <<<<"Fitness">>>>>>,
     <<<<"hormones">>, <<<<"Hormone", " ", "Balance">>>>>> >>

\* table.get(key, []) for a table of <<key, list>> rows
GetList(table, key) ==
    IF \E i \in 1..Len(table) : table[i][1] = key
    THEN table[CHOOSE i \in 1..Len(table) : table[i][1] = key][2]
    ELSE <<>>

Range(s) == {s[i] : i \in 1..Len(s)}

\* Python's `term in text` on the texts drawn here: a one-word term also
\* occurs inside a longer word of the text, a term of several words occurs
\* word by word
Inside(word) ==
    CASE word = "shellfish" -> {"shellfish", "fish"}
      [] word = "ashwagandha" -> {"ashwagandha", "dha"}
      [] OTHER -> {word}

In(term, text) ==
    \E i \in 1..(Len(text) - Len(term) + 1) :
        IF Len(term) = 1 THEN term[1] \in Inside(text[i])
        ELSE SubSeq(text, i, i + Len(term) - 1) = term

\* any(term in text for term in terms)
AnyIn(terms, text) == \E i \in 1..Len(terms) : In(terms[i], text)

\* sep.join(parts)
RECURSIVE join_with(_, _)
join_with(sep, parts) ==
    IF parts = <<>> THEN <<>>
    ELSE IF Len(parts) = 1 THEN parts[1]
    ELSE parts[1] \o sep \o join_with(sep, Tail(parts))

\* [part for part in text_parts if part]
NonEmpty(parts) == SelectSeq(parts, LAMBDA part : part # <<>>)

LowerAll(texts) == [i \in 1..Len(texts) |-> lower(texts[i])]

\* _extract_concerns: the concern keys of the context in lower case (a key
\* has neither blank nor "&")
_extract_concerns(context) ==
    IF W("concern") \in DOMAIN context
    THEN [i \in 1..Len(context[W("concern")]) |-> LowerTok(context[W("concern")][i])]
    ELSE <<>>

\* _extract_terms: the words of three letters or more, in lower case
_extract_terms(message) == SelectSeq(lower(message), LAMBDA t : TokLen(t) >= 3)

KeywordsOf(concern) == GetList(CONCERN_TO_KEYWORDS, W(concern))

GoalsOf(concern) == GetList(CONCERN_TO_HEALTH_GOALS, W(concern))

\* _extract_keywords: a set
_extract_keywords(concerns, message) ==
    UNION {Range(KeywordsOf(c)) : c \in Range(concerns)}
    \cup {W(t) : t \in Range(_extract_terms(message))}

RECURSIVE _concerns_to_health_goals(_)
_concerns_to_health_goals(concerns) ==
    IF concerns = <<>> THEN <<>>
    ELSE GoalsOf(Head(concerns)) \o _concerns_to_health_goals(Tail(concerns))

\* _get_product_text: title, description, benefits, health goals and
\* ingredients, joined by blanks
_get_product_text(product) ==
    join_with(<<SP>>, NonEmpty(<<StrOf(product.title), product.description>>
                               \o product.benefits \o product.healthGoals
                               \o product.ingredients))

\* " ".join(certifications).lower()
CertText(product) == lower(join_with(<<SP>>, product.certification))

\* the loop over keywords of _score_product: 1.0 per keyword in the text
RECURSIVE KeywordScore(_, _)
KeywordScore(keywords, product_text) ==
    IF keywords = {} THEN 0
    ELSE (IF In(CHOOSE k \in keywords : TRUE, product_text) THEN 2 ELSE 0)
         + KeywordScore(keywords \ {CHOOSE k \in keywords : TRUE}, product_text)

\* an expected goal is part of one of the product's health goals
DirectMatch(concern, product) ==
    \E i \in 1..Len(GoalsOf(concern)) : \E j \in 1..Len(product.healthGoals) :
        In(lower(GoalsOf(concern)[i]), lower(product.healthGoals[j]))

\* a keyword of the concern is in the health goals or in the text
KeywordMatch(concern, health_goals_text, product_text) ==
    \E i \in 1..Len(KeywordsOf(concern)) :
        \/ In(KeywordsOf(concern)[i], health_goals_text)
        \/ In(KeywordsOf(concern)[i], product_text)

\* a faulty ConcernScore: 1.5 for every keyword of the concern that matches
RECURSIVE ConcernScorePerKeyword(_, _, _, _)
ConcernScorePerKeyword(concerns, product, health_goals_text, product_text) ==
    IF concerns = <<>> THEN 0
    ELSE (IF DirectMatch(Head(concerns), product) THEN 4 ELSE 0)
         + 3 * Cardinality({i \in 1..Len(KeywordsOf(Head(concerns))) :
                               \/ In(KeywordsOf(Head(concerns))[i], health_goals_text)
                               \/ In(KeywordsOf(Head(concerns))[i], product_text)})
         + ConcernScorePerKeyword(Tail(concerns), product, health_goals_text, product_text)

\* the loop over concerns of _score_product: 2.0 for a direct match, 1.5
\* for a keyword match
RECURSIVE ConcernScore(_, _, _, _)
ConcernScore(concerns, product, health_goals_text, product_text) ==
    IF concerns = <<>> THEN 0
    ELSE (IF DirectMatch(Head(concerns), product) THEN 4 ELSE 0)
         + (IF KeywordMatch(Head(concerns), health_goals_text, product_text) THEN 3 ELSE 0)
         + ConcernScore(Tail(concerns), product, health_goals_text, product_text)

\* the bonus for vegan (2.0) and vegetarian (1.5) products
DietScore(context, product_text, cert_text) ==
    IF context = EmptyMap THEN 0
    ELSE IF lower(GetText(context, W("eating_habits"))) = W("vegan")
    THEN (IF In(W("vegan"), product_text) \/ In(W("vegan"), cert_text) THEN 4 ELSE 0)
    ELSE IF lower(GetText(context, W("eating_habits"))) = W("vegetarian")
    THEN (IF In(W("vegetarian"), product_text) \/ In(W("vegetarian"), cert_text)
          THEN 3 ELSE 0)
    ELSE 0

high_value_keywords ==
    {W("fatigue"), W("energy"), W("immune"), W("memory"), W("concentration")}

\* 0.5 per high value keyword among the keywords and in the text
HighValueScore(keywords, product_text) ==
    Cardinality({k \in high_value_keywords : k \in keywords /\ In(k, product_text)})

ScoreOf(product, keywords, concerns, context, product_text) ==
    KeywordScore(keywords, product_text)
    + ConcernScore(concerns, product,
                   join_with(<<SP>>, LowerAll(product.healthGoals)), product_text)
    + DietScore(context, product_text, CertText(product))
    + HighValueScore(keywords, product_text)

_score_product(product, keywords, concerns, context) ==
    ScoreOf(product, keywords, concerns, context, lower(_get_product_text(product)))

\* animal_indicators (lines 372-372)
animal_indicators ==
    <<<<"gelatin">>, <<"fish">>, <<"shellfish">>, <<"milk">>, <<"dairy">>,
      <<"whey">>, <<"casein">>>>

\* exclude_views (lines 406-410)
exclude_views ==
    <<<<"more", " ", "information", " ", "needed", " ", "for", " ", "an", " ", "opinion">>,
      <<"i", " ", "am", " ", "skeptical">>,
      <<"alternative", " ", "medicine", " ", "is", " ", "nonsense">>>>

\* ayurveda_keywords (lines 422-428)
ayurveda_keywords ==
    <<<<"ayurveda">>, <<"ayurvedic">>, <<"ayurved">>,
      <<"traditional", " ", "indian", " ", "medicine">>,
      <<"ancient", " ", "indian", " ", "medicine">>>>

\* ayurvedic_herbs (lines 431-462)
ayurvedic_herbs ==
    <<<<"ashwagandha">>, <<"ashwagandha", " ", "root">>,
      <<"ashwagandha", " ", "extract">>, <<"withania", " ", "somnifera">>,
      <<"turmeric">>, <<"curcumin">>, <<"holy", " ", "basil">>, <<"tulsi">>,
      <<"ocimum", " ", "sanctum">>, <<"triphala">>, <<"amla">>,
      <<"amalaki">>, <<"brahmi">>, <<"bacopa", " ", "monnieri">>,
      <<"guggul">>, <<"commiphora", " ", "mukul">>, <<"shilajit">>,
      <<"guduchi">>, <<"tinospora", " ", "cordifolia">>, <<"neem">>,
      <<"azadirachta", " ", "indica">>, <<"ginger">>,
      <<"zingiber", " ", "officinale">>, <<"licorice">>,
      <<"glycyrrhiza", " ", "glabra">>, <<"gotu", " ", "kola">>,
      <<"centella", " ", "asiatica">>, <<"boswellia">>, <<"frankincense">>,
      <<"boswellia", " ", "serrata">>>>

\* allergen_map (lines 488-500)
allergen_map ==
  <<<<<<"milk">>, <<<<"milk">>, <<"lactose">>, <<"dairy">>, <<"casein">>,
              <<"whey">>, <<"butter">>, <<"cream">>>>>>,
     <<<<"egg">>, <<<<"egg">>, <<"albumin">>, <<"ovalbumin">>, <<"lecithin">>,
              <<"eggs">>>>>>,
     <<<<"fish">>, <<<<"fish">>, <<"gelatin">>, <<"fish", " ", "oil">>,
              <<"omega", "-", "3">>, <<"dha">>, <<"epa">>, <<"cod">>,
              <<"salmon">>, <<"tuna">>>>>>,
     <<<<"shellfish">>, <<<<"shellfish">>, <<"crustacean">>, <<"shrimp">>, <<"crab">>,
              <<"lobster">>, <<"prawn">>>>>>,
     <<<<"crustaceans">>, <<<<"shellfish">>, <<"crustacean">>, <<"shrimp">>, <<"crab">>,
              <<"lobster">>, <<"prawn">>>>>>,
     <<<<"peanut">>, <<<<"peanut">>, <<"peanuts">>, <<"arachis">>>>>>,
     <<<<"nuts">>, <<<<"nut">>, <<"almond">>, <<"walnut">>, <<"hazelnut">>,
              <<"cashew">>, <<"pistachio">>, <<"pecan">>, <<"macadamia">>,
              <<"brazil", " ", "nut">>>>>>,
     <<<<"soy">>, <<<<"soy">>, <<"soya">>, <<"soybean">>, <<"soy", " ", "bean">>,
              <<"tofu">>, <<"tempeh">>, <<"miso">>>>>>,
     <<<<"gluten">>, <<<<"gluten">>, <<"wheat">>, <<"barley">>, <<"rye">>,
              <<"triticale">>, <<"spelt">>, <<"kamut">>>>>>,
     <<<<"wheat">>, <<<<"wheat">>, <<"gluten">>, <<"flour">>, <<"semolina">>,
              <<"durum">>>>>>,
     <<<<"pollen">>, <<<<"pollen">>, <<"bee", " ", "pollen">>,
              <<"flower", " ", "pollen">>>>>> >>

\* lactose_indicators (lines 572-572)
lactose_indicators ==
    <<<<"lactose">>, <<"dairy">>, <<"milk">>, <<"whey">>, <<"casein">>,
      <<"butter">>, <<"cream">>>>

\* gluten_indicators (lines 583-583)
gluten_indicators ==
    <<<<"gluten">>, <<"wheat">>, <<"barley">>, <<"rye">>>>

\* paleo_avoid (lines 591-591)
paleo_avoid ==
    <<<<"wheat">>, <<"barley">>, <<"rye">>, <<"rice">>, <<"soy">>,
      <<"soya">>, <<"bean">>, <<"peanut">>, <<"dairy">>, <<"milk">>,
      <<"lactose">>>>

_should_exclude_ayurveda(context) ==
    InSeq(lower(GetText(context, W("ayurveda_view"))), exclude_views)

_is_ayurveda_product(product) ==
    \/ AnyIn(ayurveda_keywords, lower(_get_product_text(product)))
    \/ AnyIn(ayurvedic_herbs, lower(_get_product_text(product)))

\* _get_all_product_text_for_allergen_check: the product text, the
\* ingredients again, the nutrition info and the certifications
_get_all_product_text_for_allergen_check(product) ==
    join_with(<<SP>>, <<_get_product_text(product)>> \o product.ingredients
                      \o <<product.nutritionInfo>> \o product.certification)

\* the allergens to look for: those of the map, or the allergy itself
AllergensToCheck(user_allergy) ==
    IF GetList(allergen_map, user_allergy) = <<>> THEN <<user_allergy>>
    ELSE GetList(allergen_map, user_allergy)

\* the loop over the stated allergies
AllergyFound(allergies_list, all_product_text) ==
    \E i \in 1..Len(allergies_list) :
        /\ strip(allergies_list[i]) # <<>>
        /\ strip(allergies_list[i]) # W("no")
        /\ AnyIn(AllergensToCheck(strip(allergies_list[i])), all_product_text)

\* a faulty _product_contains_allergens: the allergies answer is looked up
\* whole, without being split
_product_contains_allergens_unsplit(product, user_allergies) ==
    AllergyFound(<<lower(user_allergies)>>,
                 lower(_get_all_product_text_for_allergen_check(product)))

_product_contains_allergens(product, user_allergies) ==
    AllergyFound(split(replace(lower(user_allergies),
                               Phrase(<<"shellfish", "and", "crustaceans">>),
                               <<"shellfish", ",", "crustaceans">>), ","),
                 lower(_get_all_product_text_for_allergen_check(product)))

\* lactose-free, gluten free (a product certified gluten free passes at
\* once) and paleo
DietaryMatch(product_text, certifications, dietary_prefs) ==
    IF /\ In(<<"lactose", "-", "free">>, dietary_prefs) \/ In(Phrase(<<"lactose", "free">>), dietary_prefs)
       /\ AnyIn(lactose_indicators, product_text)
    THEN FALSE
    ELSE IF In(Phrase(<<"gluten", "free">>), dietary_prefs) \/ In(<<"gluten", "-", "free">>, dietary_prefs)
    THEN IF InSeq(<<"gluten", "-", "free">>, certifications) \/ InSeq(Phrase(<<"gluten", "free">>), certifications)
         THEN TRUE
         ELSE IF AnyIn(gluten_indicators, product_text) THEN FALSE
         ELSE ~(In(W("paleo"), dietary_prefs) /\ AnyIn(paleo_avoid, product_text))
    ELSE ~(In(W("paleo"), dietary_prefs) /\ AnyIn(paleo_avoid, product_text))

_product_matches_dietary_preferences(product, dietary_prefs) ==
    DietaryMatch(lower(_get_all_product_text_for_allergen_check(product)),
                 LowerAll(product.certification), dietary_prefs)

\* the vegan test of _is_safe_and_suitable
VeganSuitable(product, eating_habits) ==
    ~ /\ eating_habits = W("vegan")
      /\ AnyIn(animal_indicators, lower(_get_product_text(product)))
      /\ ~In(W("vegan"), CertText(product))

AllergySuitable(product, allergies) ==
    ~ /\ allergies # <<>>
      /\ lower(allergies) # W("no")
      /\ _product_contains_allergens(product, allergies)

DietSuitable(product, dietary_prefs) ==
    ~ /\ dietary_prefs # <<>>
      /\ dietary_prefs # Phrase(<<"no", "preference">>)
      /\ ~_product_matches_dietary_preferences(product, dietary_prefs)

_is_safe_and_suitable(product, context) ==
    \/ context = EmptyMap
    \/ /\ VeganSuitable(product, lower(GetText(context, W("eating_habits"))))
       /\ AllergySuitable(product, GetText(context, W("allergies")))
       /\ DietSuitable(product, lower(GetText(context, W("dietary_preferences"))))

\* MIN_CONFIDENCE_SCORE = 0.5
MIN_CONFIDENCE_SCORE == 1

\* status is True or "Active", and isDeleted is not True
IsActive(product) == product.status \in {"true", "Active"} /\ ~product.isDeleted

\* the base score of a product that scored 0
BaseScore(score, search_used_criteria, keywords, concerns) ==
    IF score = 0 /\ (search_used_criteria \/ (keywords = {} /\ concerns = <<>>))
    THEN 1 ELSE score

Scored(score, product) == [score |-> score, product |-> product]

AppendScored(scored_products, score, product) ==
    IF score > 0 THEN Append(scored_products, Scored(score, product)) ELSE scored_products

\* a faulty ScoreAll: the status of a document is not looked at
RECURSIVE ScoreAllStatuses(_, _, _, _, _)
ScoreAllStatuses(mongo_products, keywords, concerns, context, search_used_criteria) ==
    IF mongo_products = <<>> THEN <<>>
    ELSE <<Scored(BaseScore(_score_product(Head(mongo_products), keywords, concerns, context),
                            search_used_criteria, keywords, concerns),
                  Head(mongo_products))>>
         \o ScoreAllStatuses(Tail(mongo_products), keywords, concerns, context,
                             search_used_criteria)

\* the scoring loop: the active products with a positive score
RECURSIVE ScoreFrom(_, _, _, _, _, _)
ScoreFrom(mongo_products, keywords, concerns, context, search_used_criteria, scored_products) ==
    IF mongo_products = <<>> THEN scored_products
    ELSE ScoreFrom(Tail(mongo_products), keywords, concerns, context, search_used_criteria,
                   IF IsActive(Head(mongo_products))
                   THEN AppendScored(scored_products,
                                     BaseScore(_score_product(Head(mongo_products), keywords,
                                                              concerns, context),
                                               search_used_criteria, keywords, concerns),
                                     Head(mongo_products))
                   ELSE scored_products)

ScoreAll(mongo_products, keywords, concerns, context, search_used_criteria) ==
    ScoreFrom(mongo_products, keywords, concerns, context, search_used_criteria, <<>>)

\* a faulty SortByScore: among equal scores the later one comes first
RECURSIVE SortByScoreLastFirst(_, _)
SortByScoreLastFirst(scored_products, idx) ==
    IF idx = {} THEN <<>>
    ELSE LET best == CHOOSE i \in idx : \A j \in idx :
                         \/ scored_products[i].score > scored_products[j].score
                         \/ scored_products[i].score = scored_products[j].score /\ i >= j
         IN  <<scored_products[best]>> \o SortByScoreLastFirst(scored_products, idx \ {best})

\* scored_products.sort(key=score, reverse=True): stable, equal scores keep
\* their order
RECURSIVE SortByScore(_, _)
SortByScore(scored_products, idx) ==
    IF idx = {} THEN <<>>
    ELSE LET best == CHOOSE i \in idx : \A j \in idx :
                         \/ scored_products[i].score > scored_products[j].score
                         \/ scored_products[i].score = scored_products[j].score /\ i <= j
         IN  <<scored_products[best]>> \o SortByScore(scored_products, idx \ {best})

\* _mongo_to_product: the Product of a document
_mongo_to_product(product) ==
    [title |-> product.title, description |-> product.description,
     benefits |-> product.benefits, healthGoals |-> product.healthGoals,
     nutritionInfo |-> product.nutritionInfo]

\* a faulty Passes: the exclude list is not looked at
PassesExcluded(product, context, exclude_titles, include_titles, exclude_ayurveda) ==
    /\ include_titles # <<>> => InSeq(product.title, include_titles)
    /\ ~(exclude_ayurveda /\ _is_ayurveda_product(product))
    /\ _is_safe_and_suitable(product, context)

\* the tests of the filter loop on a product with enough score
Passes(product, context, exclude_titles, include_titles, exclude_ayurveda) ==
    /\ include_titles # <<>> => InSeq(product.title, include_titles)
    /\ ~InSeq(product.title, exclude_titles)
    /\ ~(exclude_ayurveda /\ _is_ayurveda_product(product))
    /\ _is_safe_and_suitable(product, context)

\* the filter loop without the stop at three (used by FoundAmongAll)
RECURSIVE FilterFromUncut(_, _, _, _, _, _)
FilterFromUncut(scored_products, context, exclude_titles, include_titles, exclude_ayurveda, filtered_products) ==
    IF scored_products = <<>> THEN filtered_products
    ELSE IF Head(scored_products).score < MIN_CONFIDENCE_SCORE
    THEN IF Len(filtered_products) >= 1 THEN filtered_products
         ELSE FilterFromUncut(Tail(scored_products), context, exclude_titles, include_titles,
                              exclude_ayurveda, filtered_products)
    ELSE FilterFromUncut(Tail(scored_products), context, exclude_titles, include_titles,
                         exclude_ayurveda,
                         IF Passes(Head(scored_products).product, context, exclude_titles,
                                   include_titles, exclude_ayurveda)
                         THEN Append(filtered_products,
                                     _mongo_to_product(Head(scored_products).product))
                         ELSE filtered_products)

\* the filter loop over the sorted products: it stops at three, and at a
\* score under the minimum once a product is in
RECURSIVE FilterFrom(_, _, _, _, _, _)
FilterFrom(scored_products, context, exclude_titles, include_titles, exclude_ayurveda, filtered_products) ==
    IF scored_products = <<>> \/ Len(filtered_products) >= 3 THEN filtered_products
    ELSE IF Head(scored_products).score < MIN_CONFIDENCE_SCORE
    THEN IF Len(filtered_products) >= 1 THEN filtered_products
         ELSE FilterFrom(Tail(scored_products), context, exclude_titles, include_titles,
                         exclude_ayurveda, filtered_products)
    ELSE FilterFrom(Tail(scored_products), context, exclude_titles, include_titles,
                    exclude_ayurveda,
                    IF Passes(Head(scored_products).product, context, exclude_titles,
                              include_titles, exclude_ayurveda)
                    THEN Append(filtered_products,
                                _mongo_to_product(Head(scored_products).product))
                    ELSE filtered_products)

\* result_docs: the scored documents by title, a later one of the same
\* title replacing an earlier one
ResultDocs(scored_products) ==
    [title \in {scored_products[i].product.title : i \in 1..Len(scored_products)} |->
        scored_products[CHOOSE i \in 1..Len(scored_products) :
            /\ scored_products[i].product.title = title
            /\ \A j \in (i + 1)..Len(scored_products) :
                   scored_products[j].product.title # title].product]

\* what find_relevant_products returns: the products and the documents
Found(products, product_documents, scored_products) ==
    [products |-> products, product_documents |-> product_documents,
     scored_products |-> scored_products]

NothingFound == Found(<<>>, EmptyMap, <<>>)

\* filtered_products[:3]
FirstThree(filtered_products) ==
    SubSeq(filtered_products, 1,
           IF Len(filtered_products) < 3 THEN Len(filtered_products) ELSE 3)

\* a faulty FoundAmong: every product that passes the filter is returned
FoundAmongAll(scored_products, context, exclude_titles, include_titles) ==
    Found(FilterFromUncut(scored_products, context, exclude_titles, include_titles,
                          _should_exclude_ayurveda(context), <<>>),
          ResultDocs(scored_products), scored_products)

FoundAmong(scored_products, context, exclude_titles, include_titles) ==
    Found(FirstThree(FilterFrom(scored_products, context, exclude_titles, include_titles,
                                _should_exclude_ayurveda(context), <<>>)),
          ResultDocs(scored_products), scored_products)

SortedScores(scored_products) == SortByScore(scored_products, 1..Len(scored_products))

\* the search on the documents of the catalogue, from the concerns on;
\* search_used_criteria is bool(health_goals or message_terms or
\* include_product_titles)
FindWith(mongo_products, concerns, message, context, exclude_titles, include_titles) ==
    FoundAmong(SortedScores(ScoreAll(mongo_products, _extract_keywords(concerns, message),
                                     concerns, context,
                                     \/ _concerns_to_health_goals(concerns) # <<>>
                                     \/ _extract_terms(message) # <<>>
                                     \/ include_titles # <<>>)),
               context, exclude_titles, include_titles)

\* find_relevant_products on the documents mongo_products that the
\* repository search returned; the score of each scored document is kept
\* beside the result
find_relevant_products_of(mongo_products, message, context, exclude_product_titles, include_product_titles) ==
    IF mongo_products = <<>> THEN NothingFound
    ELSE FindWith(mongo_products, _extract_concerns(context), message, context,
                  exclude_product_titles, include_product_titles)

(***************************************************************************)
(* The product search as a function of its inputs: the documents the       *)
(* catalogue returned, the message, the answers and the exclude and        *)
(* include lists.                                                          *)
(***************************************************************************)
\* most documents of a candidate pool
MaxPool == 4

Doc(title, status, isDeleted, description, healthGoals, ingredients, nutritionInfo, certification) ==
    [title |-> title, status |-> status, isDeleted |-> isDeleted,
     description |-> description, benefits |-> <<>>, healthGoals |-> healthGoals,
     ingredients |-> ingredients, nutritionInfo |-> nutritionInfo,
     certification |-> certification]

\* the documents of the catalogue, in the order the catalogue returns them
Catalogue ==
    << Doc("P8", "true", FALSE, Phrase(<<"sleep", "calm">>), <<W("Sleep")>>,
           <<W("gelatin")>>, <<>>, <<W("Vegan")>>),
       Doc("P1", "true", FALSE, Phrase(<<"sleep", "calm">>), <<W("Sleep")>>,
           <<W("magnesium")>>, W("whey"), <<>>),
       Doc("P2", "true", FALSE, Phrase(<<"energy", "fatigue">>),
           <<Phrase(<<"Energy", "Support">>)>>, <<W("ashwagandha")>>, <<>>, <<>>),
       Doc("P3", "true", FALSE, Phrase(<<"shellfish", "extract">>), <<W("Sleep")>>,
           <<>>, <<>>, <<>>),
       Doc("P4", "false", FALSE,
           Phrase(<<"sleep", "rest", "relaxation", "calm", "tiredness", "fatigue">>),
           <<W("Sleep")>>, <<>>, <<>>, <<>>),
       Doc("P5", "Active", FALSE, Phrase(<<"vegetarian", "tablet">>), <<>>, <<>>, <<>>, <<>>),
       Doc("P7", "true", FALSE,
           Phrase(<<"high", "dose", "vitamin", "a", "black", "cohosh">>), <<W("Sleep")>>,
           <<W("iron")>>, <<>>, <<>>),
       Doc("P9", "true", TRUE, Phrase(<<"sleep", "rest">>), <<W("Sleep")>>, <<>>, <<>>, <<>>) >>

\* a document outside the candidate pools
RetinolSkin ==
    Doc("P6", "true", FALSE, Phrase(<<"retinol", "skin">>),
        <<Phrase(<<"Skin", "Health">>)>>, <<>>, <<>>, <<>>)

\* the documents at the chosen places, in catalogue order
RECURSIVE Pick(_)
Pick(places) ==
    IF places = {} THEN <<>>
    ELSE <<Catalogue[CHOOSE i \in places : \A j \in places : i <= j]>>
         \o Pick(places \ {CHOOSE i \in places : \A j \in places : i <= j})

Pools == {Pick(places) : places \in {S \in SUBSET (1..Len(Catalogue)) : Cardinality(S) <= MaxPool}}

ProductContexts ==
    {Chosen("concern", concern) @@ Chosen("eating_habits", eating_habits)
        @@ Chosen("allergies", allergies) @@ views :
        concern \in {<<>>, <<"sleep">>, <<"energy", "sleep">>, <<"other">>},
        eating_habits \in {<<>>, W("vegan"), W("vegetarian")},
        allergies \in {<<>>, W("no"), Phrase(<<"shellfish", "and", "crustaceans">>),
                       <<"milk", ",", SP>> \o Phrase(<<"shellfish", "and", "crustaceans">>)},
        views \in {EmptyMap,
                   Chosen("ayurveda_view", Phrase(<<"i", "am", "skeptical">>))
                   @@ Chosen("dietary_preferences", <<"lactose", "-", "free">>)}}

\* the arguments of one call
SearchArgs(mongo_products, message, context, exclude_product_titles, include_product_titles) ==
    [mongo_products |-> mongo_products, message |-> message, context |-> context,
     exclude_product_titles |-> exclude_product_titles,
     include_product_titles |-> include_product_titles]

\* message, exclude list and include list of a call
CallChoices ==
    { << <<>>, <<>>, <<>> >>,
      << <<>>, <<"P1">>, <<>> >>,
      << <<>>, <<>>, <<"P1", "P2">> >>,
      << Phrase(<<"hi", "energy">>), <<>>, <<>> >> }

SearchInputs(pools) ==
    {SearchArgs(mongo_products, call[1], context, call[2], call[3]) :
        mongo_products \in pools, context \in ProductContexts, call \in CallChoices}

ProductInit ==
    /\ user_id = None
    /\ prior = <<>>
    /\ has_previous_sessions = FALSE
    /\ onboarding = DefaultState
    /\ has_messages = FALSE
    /\ ordered_steps = <<>>
    /\ request \in {Request("create_session", args) : args \in SearchInputs(Pools)}
    /\ response = NoResponse
    /\ question_state = NoQuestionState
    /\ appended = <<>>
    /\ searches = <<>>
    /\ writes = <<>>
    /\ returned = None
    /\ catalog_available = TRUE
    /\ generate_reply = "not called"
    /\ store_available = TRUE
    /\ metadata = NoMetadata
    /\ store = <<>>
    /\ turns = <<>>

\* find_relevant_products applied to the arguments
FindRelevantProducts ==
    /\ request.op = "create_session"
    /\ returned' = find_relevant_products_of(request.message.mongo_products,
                                             request.message.message,
                                             request.message.context,
                                             request.message.exclude_product_titles,
                                             request.message.include_product_titles)
    /\ request' = Request("find_relevant_products", request.message)
    /\ UNCHANGED <<user_id, has_previous_sessions, prior, onboarding, has_messages,
                   ordered_steps, response, question_state, appended, searches, writes,
                   catalog_available, generate_reply, store_available, metadata, store, turns>>

ProductNext == FindRelevantProducts

ProductSpec == ProductInit /\ [][ProductNext]_vars

(***************************************************************************)
(* Safety warnings of a product (get_safety_warnings).  A warning is       *)
(* modelled by its kind and by what it is about.                           *)
(***************************************************************************)
\* the herbs of pregnancy_risky_herbs (lines 809-818)
pregnancy_risky_herbs ==
    <<<<"black", " ", "cohosh">>, <<"dong", " ", "quai">>, <<"goldenseal">>,
      <<"blue", " ", "cohosh">>, <<"pennyroyal">>,
      <<"saw", " ", "palmetto">>, <<"yohimbe">>, <<"ephedra">>>>

\* allergen_indicators (lines 844-853)
allergen_indicators ==
  <<<<<<"milk">>, <<<<"milk">>, <<"lactose">>, <<"casein">>, <<"whey">>,
              <<"dairy">>>>>>,
     <<<<"egg">>, <<<<"egg">>, <<"albumin">>, <<"lecithin">>, <<"ovalbumin">>>>>>,
     <<<<"fish">>, <<<<"fish">>, <<"fish", " ", "oil">>, <<"omega", "-", "3">>,
              <<"dha">>, <<"epa">>, <<"cod", " ", "liver">>>>>>,
     <<<<"shellfish">>, <<<<"shellfish">>, <<"shrimp">>, <<"crab">>, <<"lobster">>,
              <<"crustacean">>>>>>,
     <<<<"peanut">>, <<<<"peanut">>, <<"arachis">>>>>>,
     <<<<"tree", " ", "nuts">>, <<<<"almond">>, <<"walnut">>, <<"hazelnut">>, <<"cashew">>,
              <<"pistachio">>, <<"pecan">>, <<"macadamia">>>>>>,
     <<<<"soy">>, <<<<"soy">>, <<"soya">>, <<"soybean">>, <<"tofu">>>>>>,
     <<<<"gluten">>, <<<<"wheat">>, <<"barley">>, <<"rye">>, <<"gluten">>>>>> >>

Warning(kind, about) == [kind |-> kind, about |-> about]

\* _get_product_text_for_analysis: title, description, benefits, health
\* goals and nutrition info, joined by blanks
_get_product_text_for_analysis(product_doc) ==
    join_with(<<SP>>, NonEmpty(<<StrOf(product_doc.title), product_doc.description>>
                               \o product_doc.benefits \o product_doc.healthGoals
                               \o <<product_doc.nutritionInfo>>))

\* f"{a} {b}"
Both(a, b) == a \o <<SP>> \o b

\* the terms of the vitamin A test (line 801)
vitamin_a_terms ==
    <<W("retinol"), Phrase(<<"vitamin", "a">>), W("retinyl"),
      Phrase(<<"high", "dose", "vitamin", "a">>)>>

VitaminAWarning(combined_text) ==
    IF AnyIn(vitamin_a_terms, combined_text) /\ ~In(<<"beta", "-", "carotene">>, combined_text)
    THEN <<Warning("vitamin_a", <<>>)>> ELSE <<>>

\* the loop over pregnancy_risky_herbs
RECURSIVE HerbWarnings(_, _)
HerbWarnings(herbs, combined_text) ==
    IF herbs = <<>> THEN <<>>
    ELSE (IF In(Head(herbs), combined_text) THEN <<Warning("herb", Head(herbs))>> ELSE <<>>)
         \o HerbWarnings(Tail(herbs), combined_text)

MineralWarning(combined_text) ==
    IF AnyIn(<<W("iron"), W("zinc"), W("selenium")>>, combined_text)
    THEN <<Warning("minerals", <<>>)>> ELSE <<>>

HighDose(combined_text) ==
    In(Phrase(<<"high", "dose">>), combined_text) \/ In(W("megadose"), combined_text)

\* _detect_pregnancy_concerns: the return statement stands inside the test
\* for a high dose (line 833), so without "high dose" or "megadose" in the
\* text the function returns None, which the caller treats as no warning
PregnancyConcerns(combined_text) ==
    IF HighDose(combined_text)
    THEN VitaminAWarning(combined_text) \o HerbWarnings(pregnancy_risky_herbs, combined_text)
         \o MineralWarning(combined_text)
    ELSE <<>>

_detect_pregnancy_concerns(product_text, ingredients_text) ==
    PregnancyConcerns(Both(product_text, ingredients_text))

\* _detect_allergens: the names of the allergens with an indicator in the text
RECURSIVE DetectedIn(_, _)
DetectedIn(indicators, combined_text) ==
    IF indicators = <<>> THEN <<>>
    ELSE (IF AnyIn(Head(indicators)[2], combined_text) THEN <<Head(indicators)[1]>> ELSE <<>>)
         \o DetectedIn(Tail(indicators), combined_text)

_detect_allergens(product_text, ingredients_text) ==
    DetectedIn(allergen_indicators, Both(product_text, ingredients_text))

\* the detected allergens that occur in the allergies answer
AllergenWarning(detected_allergens, user_allergies) ==
    IF user_allergies # <<>> /\ user_allergies # W("no")
       /\ SelectSeq(detected_allergens, LAMBDA a : In(lower(a), user_allergies)) # <<>>
    THEN <<Warning("allergens",
                   SelectSeq(detected_allergens, LAMBDA a : In(lower(a), user_allergies)))>>
    ELSE <<>>

\* _detect_age_concerns: high doses, stimulants, weight loss
AgeConcerns(combined_text) ==
    (IF AnyIn(<<Phrase(<<"high", "dose">>), W("megadose"), W("exceeds"),
                Phrase(<<"above", "recommended">>)>>, combined_text)
     THEN <<Warning("age_high_dose", <<>>)>> ELSE <<>>)
    \o (IF AnyIn(<<W("caffeine"), W("guarana"), Phrase(<<"yerba", "mate">>),
                   Phrase(<<"green", "tea", "extract">>)>>, combined_text)
        THEN <<Warning("age_stimulants", <<>>)>> ELSE <<>>)
    \o (IF AnyIn(<<Phrase(<<"weight", "loss">>), Phrase(<<"fat", "burner">>),
                   Phrase(<<"metabolism", "booster">>)>>, combined_text)
        THEN <<Warning("age_weight_loss", <<>>)>> ELSE <<>>)

_detect_age_concerns(product_text, ingredients_text) ==
    AgeConcerns(Both(product_text, ingredients_text))

\* the respondent is not male and is pregnant or breastfeeding, as
\* get_safety_warnings reads the answers
PregnancyContext(context) ==
    /\ lower(GetText(context, W("gender"))) \notin {W("male"), W("man"), W("m")}
    /\ \/ GetText(context, W("conceive")) = W("yes")
       \/ In(W("pregnant"), lower(GetText(context, W("situation"))))
       \/ In(W("breastfeeding"), lower(GetText(context, W("situation"))))

Under18(age_str) == isdigit(age_str) /\ int(age_str) # 0 /\ int(age_str) < 18

WarningsFor(all_text, ingredients_text, context) ==
    (IF PregnancyContext(context)
     THEN _detect_pregnancy_concerns(all_text, ingredients_text) ELSE <<>>)
    \o AllergenWarning(_detect_allergens(all_text, ingredients_text),
                       lower(GetText(context, W("allergies"))))
    \o (IF Under18(GetText(context, W("age")))
        THEN _detect_age_concerns(all_text, ingredients_text) ELSE <<>>)
    \o (IF lower(GetText(context, W("medical_treatment"))) = W("yes")
        THEN <<Warning("medical_treatment", <<>>)>> ELSE <<>>)

WarningsWith(product_text, ingredients_text, context) ==
    WarningsFor(Both(product_text, ingredients_text), ingredients_text, context)

get_safety_warnings(product_doc, context) ==
    WarningsWith(lower(_get_product_text_for_analysis(product_doc)),
                 join_with(<<SP>>, LowerAll(product_doc.ingredients)), context)

(***************************************************************************)
(* The safety warnings as a function of the document and the answers.      *)
(***************************************************************************)
\* documents that name a herb or vitamin A with and without a high dose
HerbalTea ==
    Doc("P10", "true", FALSE, Phrase(<<"black", "cohosh", "tea">>), <<>>, <<>>, <<>>, <<>>)

CaroteneMix ==
    Doc("P11", "true", FALSE,
        Phrase(<<"high", "dose", "vitamin", "a", "beta">>) \o <<"-", "carotene">>,
        <<>>, <<>>, <<>>, <<>>)

WarningDocs == Range(Catalogue) \cup {RetinolSkin, HerbalTea, CaroteneMix}

WarningContexts ==
    {Chosen("gender", gender) @@ Chosen("conceive", conceive)
        @@ Chosen("situation", situation) @@ Chosen("allergies", allergies)
        @@ Chosen("age", age) @@ Chosen("medical_treatment", medical_treatment) :
        gender \in {<<>>, W("female"), W("male")},
        conceive \in {<<>>, W("yes"), W("no")},
        situation \in {<<>>, W("pregnant"), W("breastfeeding")},
        allergies \in {<<>>, Phrase(<<"shellfish", "and", "crustaceans">>)},
        age \in {<<>>, W("5"), W("27")},
        medical_treatment \in {<<>>, W("yes")}}

WarningArgs(product_doc, context) == [product_doc |-> product_doc, context |-> context]

WarningsInit ==
    /\ user_id = None
    /\ prior = <<>>
    /\ has_previous_sessions = FALSE
    /\ onboarding = DefaultState
    /\ has_messages = FALSE
    /\ ordered_steps = <<>>
    /\ request \in {Request("create_session", WarningArgs(product_doc, context)) :
                       product_doc \in WarningDocs, context \in WarningContexts}
    /\ response = NoResponse
    /\ question_state = NoQuestionState
    /\ appended = <<>>
    /\ searches = <<>>
    /\ writes = <<>>
    /\ returned = None
    /\ catalog_available = TRUE
    /\ generate_reply = "not called"
    /\ store_available = TRUE
    /\ metadata = NoMetadata
    /\ store = <<>>
    /\ turns = <<>>

\* get_safety_warnings applied to the document and the answers
GetSafetyWarnings ==
    /\ request.op = "create_session"
    /\ returned' = get_safety_warnings(request.message.product_doc, request.message.context)
    /\ request' = Request("get_safety_warnings", request.message)
    /\ UNCHANGED <<user_id, has_previous_sessions, prior, onboarding, has_messages,
                   ordered_steps, response, question_state, appended, searches, writes,
                   catalog_available, generate_reply, store_available, metadata, store, turns>>

WarningsNext == GetSafetyWarnings

WarningsSpec == WarningsInit /\ [][WarningsNext]_vars


(***************************************************************************)
(* Properties of the session (specification Spec).                         *)
(***************************************************************************)
\* a handle_message turn that answers the field at the cursor
AnswerTurn ==
    /\ request'.op = "handle_message"
    /\ onboarding.awaiting_answer
    /\ ~onboarding.awaiting_registration_confirmation
    /\ onboarding.step < Len(ordered_steps)

\* the field at the cursor when the turn begins
CursorField == ordered_steps[onboarding.step + 1]

\* what the field's validator makes of the message of the turn
Checked ==
    _validate_response(CursorField, strip(request'.message), onboarding.responses)

\* C1: for every interview field and every answer the field's validator
\* rejects, the handle_message turn leaves the stored responses and step
\* unchanged, keeps awaiting_answer true, and re-asks the same field with an
\* error message.
RejectedAnswerIsReasked ==
    [][(AnswerTurn /\ ~Checked.valid) =>
           /\ writes' # <<>>
           /\ \A i \in 1..Len(writes') :
                  /\ writes'[i].responses = onboarding.responses
                  /\ writes'[i].step = onboarding.step
                  /\ writes'[i].awaiting_answer
           /\ onboarding'.responses = onboarding.responses
           /\ onboarding'.step = onboarding.step
           /\ onboarding'.awaiting_answer
           /\ response'.reply = "error"
           /\ response'.field = CursorField
           /\ appended' = <<"user", "error">>]_vars

\* an answer to age was rejected and age is asked again
RejectedAnswerSeen ==
    /\ request.op = "handle_message"
    /\ request.message = W("101")
    /\ response.reply = "error"
    /\ response.field = W("age")
    /\ onboarding.awaiting_answer
    /\ ordered_steps[onboarding.step + 1] = W("age")
    /\ W("age") \notin DOMAIN onboarding.responses

\* the steps of the documents a call writes, after the step stored before it
StepsWritten == <<onboarding.step>> \o [i \in 1..Len(writes') |-> writes'[i].step]

\* C2: across any sequence of handle_message, get_first_question and
\* get_current_question calls on a session, the stored step never decreases
\* and never exceeds the length of the step list computed from the stored
\* responses.
StepNeverDecreasesNorExceeds ==
    /\ onboarding.step <= Len(_ordered_steps(onboarding.responses, has_previous_sessions,
                                             FALSE))
    /\ [][/\ \A i \in 1..Len(writes') :
                 /\ StepsWritten[i] <= StepsWritten[i + 1]
                 /\ writes'[i].step
                        <= Len(_ordered_steps(writes'[i].responses,
                                              has_previous_sessions, FALSE))
          /\ onboarding.step <= onboarding'.step
          /\ onboarding'.step
                 <= Len(_ordered_steps(onboarding'.responses, has_previous_sessions,
                                       FALSE))]_vars

\* the cursor has moved and stands at the end of the step list
StepAtEndSeen ==
    /\ onboarding.step > 0
    /\ onboarding.step = Len(_ordered_steps(onboarding.responses, has_previous_sessions,
                                            FALSE))
    /\ request.op = "get_current_question"

\* C3: in every onboarding state written to the session store,
\* awaiting_answer is false whenever complete is true.
CompleteIsNotAwaiting ==
    /\ onboarding.complete => ~onboarding.awaiting_answer
    /\ \A i \in 1..Len(writes) : writes[i].complete => ~writes[i].awaiting_answer

\* a call wrote a complete onboarding state
CompleteWritten ==
    /\ writes # <<>>
    /\ writes[Len(writes)].complete
    /\ onboarding.complete


\* a valid answer arrives while the cursor is at medical_treatment
MedicalTreatmentAnswered ==
    AnswerTurn /\ CursorField = W("medical_treatment") /\ Checked.valid

\* C4 as stated: a valid answer to medical_treatment sets complete, runs the
\* recommendation generation, returns a null reply and appends the
\* recommendation text to the stored messages.
RecommendationAlwaysStored ==
    [][MedicalTreatmentAnswered =>
           /\ onboarding'.complete
           /\ searches' # <<>>
           /\ response'.reply = "None"
           /\ InSeq("recommendation", appended')]_vars

\* C4, amended: a valid answer to medical_treatment sets complete, runs the
\* recommendation generation and returns a null reply; the recommendation
\* text is appended to the stored messages exactly when the generation found
\* at least one product.
RecommendationStoredWhenFound ==
    [][MedicalTreatmentAnswered =>
           /\ onboarding'.complete
           /\ onboarding'.recommendations_shown
           /\ searches' # <<>>
           /\ searches'[1].limit = 10
           /\ response' = NoResponse
           /\ appended' = IF onboarding'.recommended_product_titles # <<>>
                          THEN <<"user", "recommendation">>
                          ELSE <<"user">>]_vars

\* medical_treatment was answered and a recommendation was stored
RecommendationStoredSeen ==
    /\ request.op = "handle_message"
    /\ onboarding.last_field = W("medical_treatment")
    /\ onboarding.complete
    /\ response.reply = "None"
    /\ onboarding.recommended_product_titles = <<"P1", "P3">>
    /\ appended = <<"user", "recommendation">>

\* for_whom is answered with a family value
FamilyAnswered ==
    /\ AnswerTurn
    /\ CursorField = W("for_whom")
    /\ Checked.valid
    /\ Checked.normalized = W("family")

\* a reply to the registration question
RegistrationTurn ==
    request'.op = "handle_message" /\ onboarding.awaiting_registration_confirmation

\* the reply as the handler compares it
RegistrationAnswer == lower(strip(request'.message))

\* C5: after for_whom is answered with a family value the registration
\* question is asked without advancing step; a following 'no' advances step
\* by exactly one and asks the field that follows for_whom in the step list;
\* a reply that is neither yes nor no re-asks the registration question and
\* leaves step and responses unchanged.
RegistrationQuestionFlow ==
    [][/\ FamilyAnswered =>
              /\ response'.reply = "registration"
              /\ onboarding'.awaiting_registration_confirmation
              /\ onboarding'.step = onboarding.step
       /\ (RegistrationTurn /\ RegistrationAnswer = W("no")) =>
              /\ onboarding'.step = onboarding.step + 1
              /\ onboarding'.responses = onboarding.responses
              /\ response'.reply = "question"
              /\ CursorField = W("for_whom")
              /\ response'.field = ordered_steps[onboarding.step + 2]
              /\ onboarding'.awaiting_answer
       /\ (RegistrationTurn
           /\ RegistrationAnswer \notin REGISTRATION_YES \cup REGISTRATION_NO) =>
              /\ response'.reply = "registration_reask"
              /\ onboarding'.awaiting_registration_confirmation
              /\ onboarding'.step = onboarding.step
              /\ onboarding'.responses = onboarding.responses]_vars

\* the registration was declined and the field after for_whom is asked
RegistrationDeclinedSeen ==
    /\ request.op = "handle_message"
    /\ request.message = W("no")
    /\ onboarding.last_field = W("for_whom")
    /\ onboarding.responses[W("for_whom")] = W("family")
    /\ response.reply = "question"
    /\ response.field = W("family_name")
    /\ ordered_steps[onboarding.step] = W("for_whom")


\* C6 as stated, for the handle_message turn that follows the redirect: a 'yes'
\* reply to the registration question gives a response that carries the
\* redirect URL, and the next turn on the session asks no interview question,
\* stores no answer and does not wait for one.
RedirectEndsInterview ==
    [][/\ (RegistrationTurn /\ RegistrationAnswer \in REGISTRATION_YES) =>
              /\ response'.reply = "redirect"
              /\ response'.redirect_url = LOGIN_URL
       /\ (response.reply = "redirect" /\ request'.op = "handle_message") =>
              /\ response'.reply \notin {"question", "error", "registration"}
              /\ onboarding'.responses = onboarding.responses
              /\ ~onboarding'.awaiting_answer]_vars

\* the first-listed concern of stored responses, None when there is none
FirstConcern(responses) ==
    IF W("concern") \in DOMAIN responses /\ responses[W("concern")] # <<>>
    THEN responses[W("concern")][1]
    ELSE None

\* a session holds a completed interview that recorded a concern
WithConcern(session) == session.complete /\ FirstConcern(session.responses) # None

\* some earlier completed interview has the first concern of the document
SomePriorHasFirstConcern(st) ==
    /\ FirstConcern(st.responses) # None
    /\ \E i \in 1..Len(prior) :
           /\ WithConcern(prior[i])
           /\ FirstConcern(prior[i].responses) = FirstConcern(st.responses)

\* the most recent earlier completed interview that recorded a concern has
\* the first concern of the document
LatestPriorHasFirstConcern(st) ==
    /\ FirstConcern(st.responses) # None
    /\ \E i \in 1..Len(prior) :
           /\ WithConcern(prior[i])
           /\ \A j \in (i + 1)..Len(prior) : ~WithConcern(prior[j])
           /\ FirstConcern(prior[i].responses) = FirstConcern(st.responses)

\* a handle_message turn that asks a question
AsksQuestion == request'.op = "handle_message" /\ response'.reply = "question"

\* the step list the question of the turn was taken from was computed with
\* the follow-up
FollowupInserted == onboarding'.should_ask_previous_concern_followup

\* C7 as stated: the repeat-concern follow-up is inserted if and only if the
\* user has a prior completed interview whose first concern equals the first
\* concern of the current interview.
FollowupIffSomePriorSame ==
    [][AsksQuestion => (FollowupInserted <=> SomePriorHasFirstConcern(onboarding'))]_vars

\* C7, amended: the repeat-concern follow-up is inserted if and only if the
\* most recent prior completed interview of the user that recorded a concern
\* has the same first concern as the current interview; concerns after the
\* first are not compared.  Once inserted, it is the question asked after
\* new_product_attitude.
FollowupIffLatestPriorSame ==
    [][AsksQuestion =>
           LET inserted == FollowupInserted
           IN  /\ inserted <=> LatestPriorHasFirstConcern(onboarding')
               /\ response'.field = W("previous_concern_followup") => inserted
               /\ (inserted /\ onboarding'.last_field = W("new_product_attitude"))
                      => response'.field = W("previous_concern_followup")]_vars

\* the follow-up is asked of a user whose latest interview began with stress,
\* as the current one does, and whose older interview began with sleep
FollowupAskedSeen ==
    /\ request.op = "handle_message"
    /\ response.reply = "question"
    /\ response.field = W("previous_concern_followup")
    /\ onboarding.should_ask_previous_concern_followup
    /\ prior = <<SleepSession, StressSession>>
    /\ onboarding.responses[W("concern")] = <<"stress", "sleep">>

\* the follow-up question was asked by the last call and is answered now
FollowupAnswered ==
    /\ request'.op = "handle_message"
    /\ request.op = "handle_message"
    /\ response.reply = "question"
    /\ response.field = W("previous_concern_followup")
    /\ lower(strip(request'.message)) \in {W("yes"), W("no")}

\* C8 as stated: the answer to the follow-up question is stored as the
\* follow-up answer, and when it says the earlier recommendation did not
\* resolve the issue, the first catalogue search of the recommendation
\* excludes the products of the prior recommendation.
FollowupAnswerUsed ==
    /\ [][FollowupAnswered =>
              /\ W("previous_concern_followup") \in DOMAIN onboarding'.responses
              /\ onboarding'.previous_concern_followup_checked]_vars
    /\ [][(/\ request'.op = "handle_message"
           /\ searches' # <<>>
           /\ onboarding'.complete
           /\ W("previous_concern_followup") \in DOMAIN onboarding'.responses
           /\ lower(onboarding'.responses[W("previous_concern_followup")]) = W("no")) =>
              searches'[1].exclude_product_titles =
                  _get_previous_session_concerns_and_products(
                      user_id, prior, CurrentSessionId).previous_products]_vars

\* C9 as stated: after a valid concern answer that selects c1..cn, the step
\* list of the stored responses holds, directly after concern, the
\* follow-up fields of c1, then of c2, and so on, each concern with its
\* three questions in table order.
SelectedConcernsAreFollowedUp ==
    [][(AnswerTurn /\ CursorField = W("concern") /\ Checked.valid) =>
           LET selected == Checked.normalized
               at == IndexOf(W("concern"), ordered_steps')
           IN  /\ Len(ordered_steps') >= at + 3 * Len(selected)
               /\ \A i \in 1..Len(selected) : \A q \in 1..3 :
                      ordered_steps'[at + 3 * (i - 1) + q] =
                          <<"concern", selected[i], CONCERN_QUESTIONS[selected[i]][q]>>]_vars


(***************************************************************************)
(* Properties of the step list (specification StepsSpec).                  *)
(***************************************************************************)
\* responses {concern: ["sleep"], gender: "female", conceive: "no"}
ScenarioResponses ==
    W("concern") :> <<"sleep">> @@ W("gender") :> W("female") @@ W("conceive") :> W("no")

\* the positions of the step list that hold a follow-up field of sleep
SleepFollowups ==
    {i \in 1..Len(ordered_steps) :
        /\ Len(ordered_steps[i]) = 3
        /\ ordered_steps[i][1] = "concern"
        /\ ordered_steps[i][2] = "sleep"}

\* C10: for responses {concern: ["sleep"], gender: "female", conceive: "no"}
\* the computed step list includes age, omits situation, includes the three
\* concern|sleep|* fields, and has medical_treatment as its last element.
SleepScenarioSteps ==
    (request.op = "_ordered_steps" /\ onboarding.responses = ScenarioResponses) =>
        /\ InSeq(W("age"), ordered_steps)
        /\ ~InSeq(W("situation"), ordered_steps)
        /\ \A q \in {"fall_asleep", "refreshed", "hours"} :
               InSeq(<<"concern", "sleep", q>>, ordered_steps)
        /\ Cardinality(SleepFollowups) = 3
        /\ ordered_steps[Len(ordered_steps)] = W("medical_treatment")

\* the step list of the scenario, computed for a first-time user
SleepScenarioSeen ==
    /\ request.op = "_ordered_steps"
    /\ onboarding.responses = ScenarioResponses
    /\ ~has_previous_sessions
    /\ ~onboarding.should_ask_previous_concern_followup
    /\ Len(ordered_steps) = 32
    /\ InSeq(W("conceive"), ordered_steps)


\* the eating_habits answer as _ordered_steps reads it
EatingHabits == lower(GetText(onboarding.responses, W("eating_habits")))

\* C11: for every responses map in which eating_habits is vegan or
\* vegetarian, the computed step list contains neither meat_intake nor
\* fish_intake, whatever the other answers are.
NoMeatOrFishForVegans ==
    (request.op = "_ordered_steps" /\ EatingHabits \in {W("vegan"), W("vegetarian")}) =>
        /\ ~InSeq(W("meat_intake"), ordered_steps)
        /\ ~InSeq(W("fish_intake"), ordered_steps)

\* the step list of a vegetarian: eating_habits is followed by drinks_alcohol
VegetarianStepsSeen ==
    /\ request.op = "_ordered_steps"
    /\ EatingHabits = W("vegetarian")
    /\ InSeq(W("eating_habits"), ordered_steps)
    /\ ordered_steps[IndexOf(W("eating_habits"), ordered_steps) + 1] = W("drinks_alcohol")

NamedAt(text, i, by_key) ==
    {c \in Concerns :
        \/ \E k \in 1..Len(CONCERN_SYNONYMS) :
              /\ CONCERN_SYNONYMS[k][2] = c
              /\ IsPrefix(CONCERN_SYNONYMS[k][1], SubSeq(text, i, Len(text)))
        \/ by_key /\ text[i] = c}

\* the concerns named in a text from position i on, in order of first
\* appearance and without duplicates, after those already listed
RECURSIVE NamedFrom(_, _, _, _)
NamedFrom(text, i, by_key, listed) ==
    IF i > Len(text) THEN listed
    ELSE IF NamedAt(text, i, by_key) = {} THEN NamedFrom(text, i + 1, by_key, listed)
    ELSE NamedFrom(text, i + 1, by_key,
                   AppendNew(listed, CHOOSE c \in NamedAt(text, i, by_key) : TRUE))

RECURSIVE NamedInItems(_, _, _)
NamedInItems(items, by_key, listed) ==
    IF items = <<>> THEN listed
    ELSE NamedInItems(Tail(items), by_key, NamedFrom(<<Head(items)>>, 1, by_key, listed))

\* the concerns named in a raw value
NamedIn(raw, by_key) ==
    IF raw.type = "str" THEN NamedFrom(lower(raw.value), 1, by_key, <<>>)
    ELSE IF raw.type = "list" THEN NamedInItems(raw.value, by_key, <<>>)
    ELSE <<>>

ExampleText ==
    Str(<<"Stomach", SP, "and", SP, "Intestines", ",", SP, "Hair", SP, "&", SP, "Nails">>)

\* C13: normalizeConcerns("Stomach and Intestines, Hair & Nails") returns
\* ["stomach_intestines", "hair_nails"]; in general the result lists the
\* canonical keys of the concerns named in the input in order of first
\* appearance and contains no duplicates.
NormalizedListsNamedConcerns ==
    request.op = "_normalize_concerns" =>
        /\ request.message = ExampleText => returned = <<"stomach_intestines", "hair_nails">>
        /\ returned = NamedIn(request.message, TRUE)
        /\ \A i, j \in 1..Len(returned) : i # j => returned[i] # returned[j]

\* the same with a concern named by its synonyms only: a canonical key that
\* is not its own synonym names nothing
NormalizedListsSynonymNamedConcerns ==
    request.op = "_normalize_concerns" =>
        /\ request.message = ExampleText => returned = <<"stomach_intestines", "hair_nails">>
        /\ returned = NamedIn(request.message, FALSE)
        /\ \A i, j \in 1..Len(returned) : i # j => returned[i] # returned[j]

\* the example text has been normalized
ExampleNormalized ==
    /\ request.op = "_normalize_concerns"
    /\ request.message = ExampleText
    /\ returned = <<"stomach_intestines", "hair_nails">>


(***************************************************************************)
(* Properties of the product search (specification ProductSpec).           *)
(***************************************************************************)
\* a search has been made; its arguments are request.message
Searched == request.op = "find_relevant_products"

\* the titles returned, in order
ReturnedTitles == [i \in 1..Len(returned.products) |-> returned.products[i].title]

\* the place of a title in the candidate pool
PoolIndex(title) ==
    CHOOSE i \in 1..Len(request.message.mongo_products) :
        request.message.mongo_products[i].title = title

\* the score a scored document was ranked with
RankScore(title) ==
    returned.scored_products[CHOOSE i \in 1..Len(returned.scored_products) :
        returned.scored_products[i].product.title = title].score

IsScored(title) ==
    \E i \in 1..Len(returned.scored_products) :
        returned.scored_products[i].product.title = title

\* the scored documents that pass every test of the filter
Qualifying ==
    {i \in 1..Len(returned.scored_products) :
        /\ returned.scored_products[i].score >= MIN_CONFIDENCE_SCORE
        /\ Passes(returned.scored_products[i].product, request.message.context,
                  request.message.exclude_product_titles,
                  request.message.include_product_titles,
                  _should_exclude_ayurveda(request.message.context))}

\* C14: find_relevant_products never returns more than 3 products, and
\* never returns a product whose score is below 0.5 once at least one
\* qualifying product exists, for every candidate pool, responses map and
\* exclude/include sets.
AtMostThreeAboveMinimum ==
    Searched =>
        /\ Len(returned.products) <= 3
        /\ Qualifying # {} =>
               \A i \in 1..Len(ReturnedTitles) :
                   /\ IsScored(ReturnedTitles[i])
                   /\ RankScore(ReturnedTitles[i]) >= MIN_CONFIDENCE_SCORE

\* four documents qualify and three are returned
FourthQualifyingLeftOut ==
    /\ Searched
    /\ Cardinality(Qualifying) = 4
    /\ Len(returned.products) = 3

\* the allergies answer states "shellfish and crustaceans", alone or among
\* others
StatesShellfish(allergies) ==
    \E i \in 1..Len(split(allergies, ",")) :
        strip(split(allergies, ",")[i]) = Phrase(<<"shellfish", "and", "crustaceans">>)

\* the text of a document contains "shellfish"
HasShellfish(product) == In(W("shellfish"), lower(_get_product_text(product)))

\* the context without the allergies answer
WithoutAllergies(context) ==
    [k \in DOMAIN context \ {W("allergies")} |-> context[k]]

\* C15: a candidate whose text contains "shellfish" is never returned when
\* the allergies answer is "shellfish and crustaceans" (alone or as one of
\* several stated allergies), and the same candidate is not excluded on
\* allergen grounds when allergies = "no": the search then returns what it
\* returns without the allergies answer.
ShellfishAllergyExcludesShellfish ==
    Searched =>
        /\ StatesShellfish(GetText(request.message.context, W("allergies"))) =>
               \A i \in 1..Len(request.message.mongo_products) :
                   HasShellfish(request.message.mongo_products[i]) =>
                       ~InSeq(request.message.mongo_products[i].title, ReturnedTitles)
        /\ GetText(request.message.context, W("allergies")) = W("no") =>
               returned.products =
                   find_relevant_products_of(request.message.mongo_products,
                                             request.message.message,
                                             WithoutAllergies(request.message.context),
                                             request.message.exclude_product_titles,
                                             request.message.include_product_titles).products

\* shellfish is one of two stated allergies, a scored candidate contains
\* it, and the search returns other products
ShellfishCandidateLeftOut ==
    /\ Searched
    /\ GetText(request.message.context, W("allergies"))
           = <<"milk", ",", SP>> \o Phrase(<<"shellfish", "and", "crustaceans">>)
    /\ \E i \in 1..Len(returned.scored_products) :
           HasShellfish(returned.scored_products[i].product)
    /\ returned.products # <<>>

\* the allergies answer is "no" and a candidate that contains shellfish is
\* returned
ShellfishCandidateReturned ==
    /\ Searched
    /\ GetText(request.message.context, W("allergies")) = W("no")
    /\ \E i \in 1..Len(returned.products) :
           HasShellfish(returned.product_documents[returned.products[i].title])

\* C16: a product whose document has status false is never scored and
\* never appears in the returned products, regardless of how strongly its
\* text matches the keywords.
InactiveNeverScoredNorReturned ==
    Searched =>
        \A i \in 1..Len(request.message.mongo_products) :
            request.message.mongo_products[i].status = "false" =>
                /\ ~IsScored(request.message.mongo_products[i].title)
                /\ ~InSeq(request.message.mongo_products[i].title, ReturnedTitles)

\* the pool holds a document of status false whose text has every keyword
\* of the concern, and the search returns products
InactiveMatchLeftOut ==
    /\ Searched
    /\ _extract_concerns(request.message.context) = <<"sleep">>
    /\ \E i \in 1..Len(request.message.mongo_products) :
           /\ request.message.mongo_products[i].status = "false"
           /\ \A k \in Range(KeywordsOf("sleep")) :
                  In(k, lower(_get_product_text(request.message.mongo_products[i])))
    /\ returned.products # <<>>

\* the keywords of the call
CallKeywords ==
    _extract_keywords(_extract_concerns(request.message.context), request.message.message)

\* the catalogue search had explicit criteria
CriteriaUsed ==
    \/ _concerns_to_health_goals(_extract_concerns(request.message.context)) # <<>>
    \/ _extract_terms(request.message.message) # <<>>
    \/ request.message.include_product_titles # <<>>

\* the dietary bonus of the specification
DietaryBonus(product) ==
    IF GetText(request.message.context, W("eating_habits")) = W("vegan")
       /\ (In(W("vegan"), lower(_get_product_text(product))) \/ In(W("vegan"), CertText(product)))
    THEN 4
    ELSE IF GetText(request.message.context, W("eating_habits")) = W("vegetarian")
            /\ (\/ In(W("vegetarian"), lower(_get_product_text(product)))
                \/ In(W("vegetarian"), CertText(product)))
    THEN 3
    ELSE 0

\* the additive sum of the claim, in halves
AdditiveSum(product) ==
    2 * Cardinality({k \in CallKeywords : In(k, lower(_get_product_text(product)))})
    + 4 * Cardinality({c \in Range(_extract_concerns(request.message.context)) :
            \E label \in Range(GoalsOf(c)) : \E tag \in Range(product.healthGoals) :
                lower(label) = lower(tag)})
    + 3 * Cardinality({c \in Range(_extract_concerns(request.message.context)) :
            \E k \in Range(KeywordsOf(c)) :
                \/ In(k, lower(_get_product_text(product)))
                \/ \E tag \in Range(product.healthGoals) : In(k, lower(tag))})
    + DietaryBonus(product)
    + Cardinality({k \in {W("fatigue"), W("energy"), W("immune"), W("memory"),
                          W("concentration")} :
            k \in CallKeywords /\ In(k, lower(_get_product_text(product)))})

RanksBefore(a, b) ==
    \/ RankScore(a) > RankScore(b)
    \/ RankScore(a) = RankScore(b) /\ PoolIndex(a) < PoolIndex(b)

\* C18: the returned products are ordered by descending score, candidates
\* with equal score keep the order in which the catalog returned them, and
\* no eligible candidate is omitted in favour of a returned candidate that
\* ranks after it.
RankedByScoreThenCatalogOrder ==
    Searched =>
        /\ \A i, j \in 1..Len(ReturnedTitles) :
               i < j => RanksBefore(ReturnedTitles[i], ReturnedTitles[j])
        /\ \A q \in Qualifying :
               ~InSeq(returned.scored_products[q].product.title, ReturnedTitles) =>
                   \A i \in 1..Len(ReturnedTitles) :
                       RanksBefore(ReturnedTitles[i],
                                   returned.scored_products[q].product.title)

\* two returned products have the same score, and a qualifying candidate of
\* a lower score is left out
TieAndOmissionSeen ==
    /\ Searched
    /\ Len(ReturnedTitles) = 3
    /\ RankScore(ReturnedTitles[1]) = RankScore(ReturnedTitles[2])
    /\ \E q \in Qualifying :
           /\ ~InSeq(returned.scored_products[q].product.title, ReturnedTitles)
           /\ returned.scored_products[q].score < RankScore(ReturnedTitles[3])


(***************************************************************************)
(* Properties of the safety warnings (specification WarningsSpec).         *)
(***************************************************************************)
\* the text get_safety_warnings scans: the analysis text and the ingredients
ScannedText(product_doc) ==
    Both(lower(_get_product_text_for_analysis(product_doc)),
         join_with(<<SP>>, LowerAll(product_doc.ingredients)))

HasWarning(kind, about) == InSeq(Warning(kind, about), returned)

\* C19: for a respondent in a pregnancy or breastfeeding context, the
\* safety warnings produced for a product include a warning whenever the
\* product text contains a high-dose vitamin-A/retinol term and whenever it
\* contains one of the fixed pregnancy-risk herbs.
PregnancyWarningsGiven ==
    (request.op = "get_safety_warnings" /\ PregnancyContext(request.message.context)) =>
        /\ AnyIn(vitamin_a_terms, ScannedText(request.message.product_doc))
               => HasWarning("vitamin_a", <<>>)
        /\ \A h \in 1..Len(pregnancy_risky_herbs) :
               In(pregnancy_risky_herbs[h], ScannedText(request.message.product_doc))
                   => HasWarning("herb", pregnancy_risky_herbs[h])

\* a text that speaks of a high dose gets both warnings
PregnancyWarningsSeen ==
    /\ request.op = "get_safety_warnings"
    /\ PregnancyContext(request.message.context)
    /\ HasWarning("vitamin_a", <<>>)
    /\ HasWarning("herb", Phrase(<<"black", "cohosh">>))


(***************************************************************************)
(* Properties of the recommendation fallback (specification Spec).         *)
(***************************************************************************)
\* the turn generated recommendations: its first search is the one with
\* limit 10
RecommendationTurn == searches' # <<>> /\ searches'[1].limit = 10

\* C20: when the catalogue is unavailable or a search yields nothing during
\* the recommendation generation at the end of the interview, the engine
\* searches once more without exclusions and then gives an empty but valid
\* result: the turn makes at most two searches, the second one unrestricted,
\* an empty list of titles is stored only after that second search, an
\* unavailable catalogue gives the empty list, no exception reaches the
\* caller and the interview is marked complete in that turn.
EmptySearchRetriedOnce ==
    [][RecommendationTurn =>
           /\ Len(searches') <= 2
           /\ Len(searches') = 2 => searches'[2] = SearchCall(3, <<>>, <<>>)
           /\ onboarding'.recommended_product_titles = <<>> => Len(searches') = 2
           /\ ~catalog_available' =>
                  /\ Len(searches') = 2
                  /\ onboarding'.recommended_product_titles = <<>>
           /\ response'.reply # "exception"
           /\ onboarding'.complete
           /\ onboarding'.recommendations_shown
           /\ writes' # <<>>
           /\ writes'[Len(writes')].complete]_vars

\* the catalogue was unavailable when medical_treatment was answered
UnavailableCatalogueSeen ==
    /\ request.op = "handle_message"
    /\ ~catalog_available
    /\ searches = <<SearchCall(10, <<>>, <<>>), SearchCall(3, <<>>, <<>>)>>
    /\ onboarding.complete
    /\ onboarding.recommended_product_titles = <<>>
    /\ response = NoResponse


(***************************************************************************)
(* Properties of failing collaborators (specifications Spec and FaultSpec).*)
(***************************************************************************)
\* C21: when the reply generation of the language model fails during a
\* chat turn, handle_message returns the fixed apology message as the
\* assistant reply, and the stored messages then hold an assistant reply
\* after the user's message.
FailedReplyGivesApology ==
    [][generate_reply' = "raised" =>
           /\ response'.reply = "apology"
           /\ appended' = <<"user", "assistant">>
           /\ has_messages']_vars

\* the language model failed during a chat turn: the exception left
\* handle_message and nothing was stored
FailedReplySeen ==
    /\ request.op = "handle_message"
    /\ generate_reply = "raised"
    /\ response.reply = "exception"
    /\ appended = <<>>


\* C22: when a write to the session store (appending messages or writing
\* metadata) fails during a turn, interview or chat, handle_message still
\* returns the reply it had computed for the turn instead of raising.
StoreFailureStillReplies ==
    [][(~store_available' /\ generate_reply' # "raised") =>
           response'.reply # "exception"]_vars

\* the same for the chat with the language model alone, where the writes
\* are guarded
StoreFailureStillRepliesInChat ==
    [][(~store_available' /\ generate_reply' = "returned") =>
           /\ response'.reply = "assistant"
           /\ appended' = <<>>
           /\ UNCHANGED <<onboarding, has_messages>>]_vars

\* the store refused the writes of a chat turn and the reply was returned
StoreFailureInChatSeen ==
    /\ request.op = "handle_message"
    /\ ~store_available
    /\ generate_reply = "returned"
    /\ response.reply = "assistant"

\* the store refused the writes of an interview turn and the turn raised
StoreFailureInInterviewSeen ==
    /\ request.op = "handle_message"
    /\ ~store_available
    /\ generate_reply = "not called"
    /\ response.reply = "exception"
    /\ ~onboarding.complete


(***************************************************************************)
(* When the language model is called (specification Spec).                 *)
(***************************************************************************)
\* C24: handle_message calls the reply generation of the language model
\* only in turns that begin with the interview complete: the stored state
\* is complete and the cursor is past the step list; in no turn of an
\* incomplete interview is the model called.
ModelCalledOnlyAfterInterview ==
    [][generate_reply' # "not called" =>
           /\ request'.op = "handle_message"
           /\ onboarding.complete
           /\ InChat]_vars

\* the model was called in a turn after the interview
ModelCalledSeen ==
    /\ request.op = "handle_message"
    /\ generate_reply = "returned"
    /\ onboarding.complete
    /\ response.reply = "assistant"


(***************************************************************************)
(* Properties of session creation (specification CreateSpec).              *)
(***************************************************************************)
Created == request.op = "create_session"

\* the completed interviews of the user that recorded the attribute
Recorded(key) ==
    {i \in 1..Len(prior) : prior[i].complete /\ key \in DOMAIN prior[i].responses}

MostRecent(indices) == CHOOSE i \in indices : \A j \in indices : j <= i

ReturningAfterCompleteOrStartedInterview ==
    Created =>
        (has_previous_sessions <=>
            /\ user_id # None
            /\ \E i \in 1..Len(prior) : prior[i].complete \/ prior[i].has_messages)

\* a user whose only earlier session is an abandoned interview is not asked
\* for name, email and gender, and nothing is pre-filled
ReturningAfterAbandonedSeen ==
    /\ Created
    /\ prior = <<AbandonedSession>>
    /\ has_previous_sessions
    /\ onboarding.responses = EmptyMap
    /\ ~InSeq(W("name"), ordered_steps)
    /\ ~InSeq(W("email"), ordered_steps)
    /\ ~InSeq(W("gender"), ordered_steps)


(***************************************************************************)
(* Properties of saved answers (specification SaveSpec).                   *)
(***************************************************************************)
\* the answer the responses hold for a question of a concern, <<>> if none
Detail(responses, concern, question_id) ==
    IF /\ W("concern_details") \in DOMAIN responses
       /\ concern \in DOMAIN responses[W("concern_details")]
       /\ question_id \in DOMAIN responses[W("concern_details")][concern]
    THEN responses[W("concern_details")][concern][question_id]
    ELSE <<>>

QuestionIds == UNION {Range(QuestionsOf(c)) : c \in Concerns}

\* C26: answers to follow-up questions of different concerns never
\* overwrite each other, also when two concerns share a question id: a
\* saved answer is held by its own (concern, question id) pair and every
\* other pair keeps the answer it held, whatever is saved.
FollowUpAnswersKeptApart ==
    [][request'.op = "_save_response" =>
           \A concern \in Concerns, question_id \in QuestionIds :
               Detail(onboarding'.responses, concern, question_id) =
                   IF request'.message.field = _concern_field_key(concern, question_id)
                   THEN request'.message.normalized
                   ELSE Detail(onboarding.responses, concern, question_id)]_vars

\* stomach_intestines and brain hold different answers to "improve"
SharedQuestionIdSeen ==
    /\ request.op = "_save_response"
    /\ request.message.field = _concern_field_key("brain", "improve")
    /\ Detail(onboarding.responses, "stomach_intestines", "improve") = W("yes")
    /\ Detail(onboarding.responses, "brain", "improve") = W("no")


(***************************************************************************)
(* Properties of the offered options (specification OptionsSpec).          *)
(***************************************************************************)
\* C27: for every option-based question, any option value the bot offered
\* for it is accepted by the validator of that question when it is sent
\* back as the message.
OfferedOptionAccepted ==
    request.op = "_validate_response" => returned.valid

\* the concern question offers stomach_intestines and the validator rejects it
OfferedConcernRejectedSeen ==
    /\ request.op = "_validate_response"
    /\ request.message.field = W("concern")
    /\ request.message.raw_value = W("stomach_intestines")
    /\ ~returned.valid

\* every offered value is accepted except the two concern options that are
\* canonical keys with no synonym of their own spelling
OfferedOptionAcceptedButTwoConcerns ==
    request.op = "_validate_response" =>
        (returned.valid <=>
            ~(/\ request.message.field = W("concern")
              /\ request.message.raw_value \in {W("stomach_intestines"), W("hair_nails")}))


OnboardingIsOwnEntry ==
    [][request'.op = "handle_message" =>
           /\ (generate_reply' = "not called" => metadata' = metadata)
           /\ (metadata'.token_usage # metadata.token_usage =>
                  /\ onboarding' = onboarding
                  /\ metadata'.user_id = metadata.user_id
                  /\ metadata'.has_previous_sessions = metadata.has_previous_sessions)]_vars

\* an interview turn wrote the onboarding of a returning user's session
\* whose metadata holds a token usage entry
InterviewWriteBesideUsageSeen ==
    /\ request.op = "handle_message"
    /\ generate_reply = "not called"
    /\ writes # <<>>
    /\ onboarding.step > 0
    /\ metadata = Metadata("u1", TRUE, 1)


(***************************************************************************)
(* Properties of parallel turns (specification ParallelSpec).              *)
(***************************************************************************)
\* the store after the whole turn of a session, taken at once
TurnAtOnce(st, session_id) ==
    [st EXCEPT ![session_id] =
         AfterTurn(st[session_id],
                   TurnOn(st[session_id], turns[session_id].message,
                          TurnEnv(UserDocument(st, session_id), turns[session_id].catalog)))]

SerialStore(first) == TurnAtOnce(TurnAtOnce(turns.initial, first), Other(first))

AllDone == \A s \in ParallelIds : turns[s].pc = "done"

\* a turn that began during no other turn has returned
EndedAlone(s) == request.op = "idle" /\ request.message = s

\* C23: turns on different sessions, also on two sessions of one user
\* document, interleaved read by read and write by write, leave every
\* session with the messages and the onboarding of some sequential
\* execution of the turns; a turn taken alone leaves what the turn
\* computed at once leaves.
ParallelTurnsSerializable ==
    /\ AllDone => store \in {SerialStore("a"), SerialStore("b")}
    /\ \A s \in ParallelIds : EndedAlone(s) => store = TurnAtOnce(turns.initial, s)

\* session b answered its concern question and read the user document while
\* the turn that completes session a was under way; the two sequential
\* orders differ and the store is the one of b before a
ReadDuringOtherTurnSeen ==
    /\ AllDone
    /\ turns["b"].overlapped
    /\ turns.target["a"] = W("medical_treatment")
    /\ turns.target["b"] = W("concern")
    /\ store["a"].onboarding.complete
    /\ SerialStore("a") # SerialStore("b")
    /\ store = SerialStore("b")

(***************************************************************************)
(* The conditional fields of the step list (specification StepsSpec).      *)
(***************************************************************************)
\* an answer as _ordered_steps reads it
AnswerRead(key) == lower(GetText(onboarding.responses, W(key)))

\* C39: for a new user, situation is in the step list if and only if the
\* gender is female or gender neutral and conceive is yes, children is in it
\* if and only if the gender is male, and alcohol_daily and alcohol_weekly
\* are in it if and only if drinks_alcohol is yes.
ConditionalFieldsFollowAnswers ==
    (request.op = "_ordered_steps" /\ ~has_previous_sessions) =>
        /\ InSeq(W("situation"), ordered_steps)
               <=> /\ AnswerRead("gender") \in {W("female"), Phrase(<<"gender", "neutral">>)}
                   /\ AnswerRead("conceive") = W("yes")
        /\ InSeq(W("children"), ordered_steps) <=> AnswerRead("gender") = W("male")
        /\ InSeq(W("alcohol_daily"), ordered_steps) <=> AnswerRead("drinks_alcohol") = W("yes")
        /\ InSeq(W("alcohol_weekly"), ordered_steps) <=> AnswerRead("drinks_alcohol") = W("yes")

\* the step list of a new user, gender neutral, who tries to conceive and
\* gave no answer on alcohol yet
ConditionalFieldsSeen ==
    /\ request.op = "_ordered_steps"
    /\ ~has_previous_sessions
    /\ AnswerRead("gender") = Phrase(<<"gender", "neutral">>)
    /\ AnswerRead("conceive") = W("yes")
    /\ AnswerRead("drinks_alcohol") = <<>>
    /\ InSeq(W("situation"), ordered_steps)
    /\ ~InSeq(W("children"), ordered_steps)
    /\ ~InSeq(W("alcohol_daily"), ordered_steps)
    /\ ordered_steps[IndexOf(W("drinks_alcohol"), ordered_steps) + 1] = W("coffee_intake")

(***************************************************************************)
(* Normalizing a normalized list (specification ParseSpec).                *)
(***************************************************************************)
\* a list of distinct canonical concern keys
IsCombination(raw) ==
    /\ raw.type = "list"
    /\ \A i, j \in 1..Len(raw.value) : i # j => raw.value[i] # raw.value[j]

\* C35: _normalize_concerns applied to a list it returned, or to any list
\* of distinct canonical concern keys, gives back the same list.
NormalizeConcernsIdempotent ==
    request.op = "_normalize_concerns" =>
        /\ _normalize_concerns(returned) = returned
        /\ IsCombination(request.message) => returned = request.message.value

\* the same for the ten concerns that are their own synonym, and for the
\* results that hold none of the other two
NormalizeConcernsIdempotentOnOwnSynonyms ==
    (request.op = "_normalize_concerns"
        /\ ~InSeq("stomach_intestines", returned) /\ ~InSeq("hair_nails", returned)) =>
        /\ _normalize_concerns(returned) = returned
        /\ (IsCombination(request.message)
               /\ ~InSeq("stomach_intestines", request.message.value)
               /\ ~InSeq("hair_nails", request.message.value))
              => returned = request.message.value

\* a text was normalized to a list that normalizes to another list
ReturnedListNotKeptSeen ==
    /\ request.op = "_normalize_concerns"
    /\ request.message = Str(<<"Gut", ",", SP, "Sleep">>)
    /\ returned = <<"stomach_intestines", "sleep">>
    /\ _normalize_concerns(returned) = <<"sleep">>

(***************************************************************************)
(* The step list across a stored answer (specification Spec).              *)
(***************************************************************************)
\* the entries of a step list up to the cursor position, the cursor's included
UpToCursor(steps, step) == SubSeq(steps, 1, step + 1)

\* C36: storing a valid answer for the field at cursor position i leaves
\* the step-list entries at positions 0..i as they were; the list may
\* change only after position i.
ValidAnswerKeepsEarlierSteps ==
    [][(AnswerTurn /\ Checked.valid) =>
           /\ Len(ordered_steps') > onboarding.step
           /\ UpToCursor(ordered_steps', onboarding.step)
                  = UpToCursor(ordered_steps, onboarding.step)]_vars

\* the concern answer was stored and the follow-up questions of the
\* concerns have appeared right after the concern field
FollowupsAppearedAfterCursorSeen ==
    /\ request.op = "handle_message"
    /\ onboarding.last_field = W("concern")
    /\ onboarding.step > 0
    /\ ordered_steps[onboarding.step] = W("concern")
    /\ ordered_steps[onboarding.step + 1] = _concern_followup_steps(<<"stress">>)[1]
    /\ Len(ordered_steps)
           = Len(_ordered_steps([k \in DOMAIN onboarding.responses \ {W("concern")} |->
                                    onboarding.responses[k]],
                                has_previous_sessions, FALSE)) + 6

(***************************************************************************)
(* The eligibility tests on the returned products (ProductSpec).           *)
(***************************************************************************)
\* the document of a returned product
ReturnedDoc(i) == returned.product_documents[returned.products[i].title]

\* the respondent's view of Ayurveda is one that excludes its products
ViewExcludesAyurveda ==
    lower(GetText(request.message.context, W("ayurveda_view")))
        \in {Phrase(<<"i", "am", "skeptical">>),
             Phrase(<<"alternative", "medicine", "is", "nonsense">>),
             Phrase(<<"more", "information", "needed", "for", "an", "opinion">>)}

\* the searchable text of a document holds an animal-derived indicator
HasAnimalIndicator(product) ==
    \E term \in {"gelatin", "fish", "shellfish", "milk", "dairy", "whey", "casein"} :
        In(W(term), lower(_get_product_text(product)))

CertifiedVegan(product) ==
    \E i \in 1..Len(product.certification) : In(W("vegan"), lower(product.certification[i]))

\* C40: every product find_relevant_products returns passes every
\* eligibility test: its title is not in the exclude list, it is in the
\* include list when one is given, it is not an Ayurvedic product when the
\* respondent's view excludes Ayurveda, and for a vegan respondent its
\* text holds no animal-derived indicator unless it is certified vegan.
ReturnedPassEveryFilter ==
    Searched =>
        \A i \in 1..Len(returned.products) :
            /\ ~InSeq(returned.products[i].title, request.message.exclude_product_titles)
            /\ request.message.include_product_titles # <<>> =>
                   InSeq(returned.products[i].title, request.message.include_product_titles)
            /\ ViewExcludesAyurveda => ~_is_ayurveda_product(ReturnedDoc(i))
            /\ lower(GetText(request.message.context, W("eating_habits"))) = W("vegan") =>
                   (HasAnimalIndicator(ReturnedDoc(i)) => CertifiedVegan(ReturnedDoc(i)))

\* a vegan, sceptical respondent with P1 excluded: P1, the Ayurvedic P2 and
\* P3 with its shellfish are scored and left out, and P8, gelatin but
\* certified vegan, is returned
OnlyCertifiedVeganReturned ==
    /\ Searched
    /\ lower(GetText(request.message.context, W("eating_habits"))) = W("vegan")
    /\ ViewExcludesAyurveda
    /\ request.message.exclude_product_titles = <<"P1">>
    /\ \A title \in {"P1", "P2", "P3", "P8"} : IsScored(title)
    /\ ReturnedTitles = <<"P8">>
    /\ HasAnimalIndicator(ReturnedDoc(1))

(***************************************************************************)
(* The field an answer is taken for (specification Spec).                  *)
(***************************************************************************)
\* the last call was a chat turn that asked the question of a field, and
\* the next message of the session is processed now
AnswersAskedQuestion ==
    /\ request.op = "handle_message"
    /\ response.reply = "question"
    /\ request'.op = "handle_message"

\* what the validator of the asked field makes of the message
CheckedAsAsked ==
    _validate_response(response.field, strip(request'.message), onboarding.responses)

\* the message is validated against the asked field and, if valid, stored
\* as the answer of that field and of no other
TakenForAskedField ==
    IF CheckedAsAsked.valid
    THEN onboarding'.responses
             = _save_response(response.field, CheckedAsAsked.normalized,
                              onboarding.responses)
    ELSE /\ onboarding'.responses = onboarding.responses
         /\ response'.reply = "error"
         /\ response'.field = response.field

\* C31: whenever the bot has asked the question of a field and the next
\* message of the session is processed, the message is validated against
\* that field and, if valid, stored as the answer of that field and of no
\* other; for every field of the step list, previous_concern_followup and
\* medical_treatment included.
AnswerTakenForAskedField ==
    [][AnswersAskedQuestion => TakenForAskedField]_vars

\* the same for every asked field but previous_concern_followup
AnswerTakenForAskedFieldButFollowup ==
    [][(AnswersAskedQuestion /\ response.field # W("previous_concern_followup"))
           => TakenForAskedField]_vars

\* the follow-up question was asked and the answer "no" is stored as the
\* answer to medical_treatment
FollowupAnswerStoredAsTreatmentSeen ==
    /\ request.op = "handle_message"
    /\ request.message = W("no")
    /\ onboarding.last_field = W("medical_treatment")
    /\ onboarding.should_ask_previous_concern_followup = FALSE
    /\ onboarding.complete
    /\ W("medical_treatment") \in DOMAIN onboarding.responses
    /\ W("previous_concern_followup") \notin DOMAIN onboarding.responses
    /\ LatestPriorHasFirstConcern(onboarding)


(***************************************************************************)
(* The messages a turn of handle_message appends to the session.           *)
(***************************************************************************)
\* how often the user's message is among the messages the turn appended
UserMessagesAppended(messages) == Len(SelectSeq(messages, LAMBDA m : m = "user"))

\* the user's message once, and before any reply of the assistant
UserMessageOnceAndFirst(messages) ==
    /\ UserMessagesAppended(messages) = 1
    /\ messages[1] = "user"

\* a turn of handle_message that returned: the call of the language model,
\* when there was one, did not raise
ReturnedTurn == request'.op = "handle_message" /\ response'.reply # "exception"

\* the registration question is answered with a 'no'
RegistrationDeclined == RegistrationTurn /\ RegistrationAnswer \in REGISTRATION_NO

\* C37 as stated: every turn of handle_message appends the user's message
\* to the stored messages exactly once, and the replies of the assistant
\* after it.
UserMessageAppendedOnce ==
    [][ReturnedTurn => UserMessageOnceAndFirst(appended')]_vars

\* every turn but the 'no' to the registration question appends the user's
\* message exactly once and first; that turn appends it twice, before the
\* next question
UserMessageAppendedOnceButDeclined ==
    [][/\ (ReturnedTurn /\ ~RegistrationDeclined) => UserMessageOnceAndFirst(appended')
       /\ (ReturnedTurn /\ RegistrationDeclined) =>
              appended' = <<"user", "user", "question">>]_vars

\* the 'no' to the registration question was stored twice
UserMessageAppendedTwiceSeen ==
    /\ request.op = "handle_message"
    /\ lower(strip(request.message)) \in REGISTRATION_NO
    /\ W("for_whom") \in DOMAIN onboarding.responses
    /\ onboarding.responses[W("for_whom")] = W("family")
    /\ UserMessagesAppended(appended) = 2


(***************************************************************************)
(* Messages after the recommendations were shown.                          *)
(***************************************************************************)
\* a message on a session whose stored onboarding is complete with the
\* recommendations shown
MessageAfterRecommendations ==
    /\ request'.op = "handle_message"
    /\ onboarding.complete
    /\ onboarding.recommendations_shown

\* C34 as stated: once onboarding is complete and the recommendations have
\* been shown, every later message is answered with the fixed end message:
\* no further question and no reply of the language model.
EndMessageAfterRecommendations ==
    [][MessageAfterRecommendations =>
           /\ response'.reply = "end"
           /\ generate_reply' = "not called"]_vars

\* what the handler does with such a message: the state it loads holds no
\* recommendations_shown, the cursor is past the step list and the message
\* goes to the language model; no onboarding document is written
ChatAfterRecommendations ==
    [][MessageAfterRecommendations =>
           /\ generate_reply' \in {"returned", "raised"}
           /\ response'.reply \in {"assistant", "exception"}
           /\ writes' = <<>>
           /\ onboarding' = onboarding]_vars

\* the language model answered a message sent after the recommendations
LanguageModelAfterRecommendationsSeen ==
    /\ request.op = "handle_message"
    /\ onboarding.complete
    /\ onboarding.recommendations_shown
    /\ writes = <<>>
    /\ generate_reply = "returned"
    /\ response.reply = "assistant"
    /\ appended = <<"user", "assistant">>


(***************************************************************************)
(* A completed interview stays as it is.                                   *)
(***************************************************************************)
\* C33: once complete is true, no later call of handle_message,
\* get_first_question or get_current_question changes responses, step or
\* complete of the session.
CompleteIsFinal ==
    [][onboarding.complete =>
           /\ onboarding'.responses = onboarding.responses
           /\ onboarding'.step = onboarding.step
           /\ onboarding'.complete]_vars

\* get_first_question was called on a completed interview: it answered that
\* the onboarding is complete and the cursor stayed past the first field
FirstQuestionAfterCompleteSeen ==
    /\ request.op = "get_first_question"
    /\ response.reply = "complete_notice"
    /\ onboarding.complete
    /\ onboarding.step > 0
    /\ writes = <<>>


(***************************************************************************)
(* The start of an interview.                                              *)
(***************************************************************************)
\* the first chat message of a session on which get_first_question did not
\* run: the session has no message yet
TriggerMessage == request'.op = "handle_message" /\ IsEmpty(has_messages)

\* a chat message on a session whose first question was shown by
\* get_first_question and is still the one to answer
AnswersShownFirstQuestion ==
    /\ request'.op = "handle_message"
    /\ onboarding.first_question_shown
    /\ onboarding.step = 0
    /\ onboarding.awaiting_answer
    /\ ~onboarding.awaiting_registration_confirmation

CheckedAsFirst ==
    _validate_response(ordered_steps[1], strip(request'.message), onboarding.responses)

\* C38: the first chat message after get_first_question is validated as the
\* answer to the first field; without get_first_question the first chat
\* message is a trigger that is not stored in responses and is answered with
\* the question of the first field; get_first_question on a session that
\* already has messages changes no state.
FirstFieldAskedOnce ==
    [][/\ AnswersShownFirstQuestion =>
              IF CheckedAsFirst.valid
              THEN onboarding'.responses =
                       _save_response(ordered_steps[1], CheckedAsFirst.normalized,
                                      onboarding.responses)
              ELSE /\ onboarding'.responses = onboarding.responses
                   /\ response'.reply = "error"
                   /\ response'.field = ordered_steps[1]
       /\ TriggerMessage =>
              /\ onboarding'.responses = onboarding.responses
              /\ onboarding'.step = 0
              /\ onboarding'.awaiting_answer
              /\ response'.reply = "question"
              /\ response'.field = ordered_steps[1]
              /\ appended' = <<"user", "question">>
       /\ (request'.op = "get_first_question" /\ ~IsEmpty(has_messages)) =>
              /\ writes' = <<>>
              /\ appended' = <<>>
              /\ UNCHANGED <<onboarding, has_messages, metadata>>]_vars

\* the interview was started by a chat message, its first field was answered
\* and get_first_question was called afterwards: it showed the field at the
\* cursor and wrote nothing
FirstQuestionCalledLaterSeen ==
    /\ request.op = "get_first_question"
    /\ ~onboarding.first_question_shown
    /\ has_messages
    /\ onboarding.step = 1
    /\ ordered_steps[1] \in DOMAIN onboarding.responses
    /\ response.reply = "question"
    /\ response.field = ordered_steps[2]
    /\ writes = <<>>
    /\ appended = <<>>


(***************************************************************************)
(* The interview ends.  Every chat turn with a valid message adds to the   *)
(* turns taken, a number that is at most the longest step list plus the    *)
(* trigger message and the registration question.                          *)
(***************************************************************************)
\* responses with which _ordered_steps returns its longest list for the
\* concerns tried: a family member, a woman who wants to conceive, two
\* concerns, meat and fish asked, alcohol asked
LongestResponses ==
    W("for_whom") :> W("family") @@ W("gender") :> W("woman")
    @@ W("conceive") :> W("yes") @@ W("drinks_alcohol") :> W("yes")
    @@ W("concern") :> <<"stress", "sleep">>

MaxStepListLength == Len(_ordered_steps(LongestResponses, FALSE, TRUE))

\* the chat turns an interview has used: one per step passed, one for the
\* trigger message or first question that gave the session its first
\* message, one for the turn that stored for_whom without moving the cursor
\* when the registration question followed
TurnsTaken(st, messages) ==
    st.step
    + (IF IsEmpty(messages) THEN 0 ELSE 1)
    + (IF W("for_whom") \in DOMAIN st.responses THEN 1 ELSE 0)

\* the registration question was answered with a 'yes': for_whom is stored
\* and is still the field at the cursor
RegistrationAccepted ==
    /\ ~onboarding.awaiting_registration_confirmation
    /\ W("for_whom") \in DOMAIN onboarding.responses
    /\ onboarding.step < Len(ordered_steps)
    /\ CursorField = W("for_whom")

\* a chat turn of an interview that is not complete whose message was taken:
\* not rejected by the validator, not a 'yes' or an unclear reply to the
\* registration question, and not a turn after such a 'yes'
ValidTurn ==
    /\ request'.op = "handle_message"
    /\ ~onboarding.complete
    /\ ~RegistrationAccepted
    /\ response'.reply \notin {"error", "registration_reask", "redirect"}

\* C32: with valid answers and no 'yes' to the registration question the
\* interview reaches complete after a bounded number of turns, at most the
\* longest step list plus the trigger and registration turns, and no field
\* is asked again after it was validly answered.
InterviewEnds ==
    [][ValidTurn =>
           /\ TurnsTaken(onboarding', has_messages') > TurnsTaken(onboarding, has_messages)
           /\ TurnsTaken(onboarding', has_messages') <= MaxStepListLength + 2
           /\ onboarding'.complete \/ response'.reply \in {"question", "registration"}
           /\ response'.reply = "question" =>
                  /\ ~onboarding'.complete
                  /\ response'.field \notin DOMAIN onboarding'.responses
                  /\ _parse_concern_field(response'.field) # <<>> =>
                         \/ W("concern_details") \notin DOMAIN onboarding'.responses
                         \/ _parse_concern_field(response'.field)[1]
                                \notin DOMAIN onboarding'.responses[W("concern_details")]
                         \/ _parse_concern_field(response'.field)[2] \notin
                                DOMAIN onboarding'.responses[W("concern_details")]
                                           [_parse_concern_field(response'.field)[1]]
       ]_vars

\* an interview for a family member is complete: the registration question
\* was declined and every field up to medical_treatment was answered
FamilyInterviewCompleteSeen ==
    /\ request.op = "handle_message"
    /\ onboarding.complete
    /\ W("for_whom") \in DOMAIN onboarding.responses
    /\ onboarding.responses[W("for_whom")] = W("family")
    /\ W("family_name") \in DOMAIN onboarding.responses
    /\ W("medical_treatment") \in DOMAIN onboarding.responses
    /\ TurnsTaken(onboarding, has_messages) <= MaxStepListLength + 2

====
